---------------------------- MODULE Spec2Model ----------------------------
(***************************************************************************)
(* Path Tracer Pro (src/main.py): the PathTracer editing state, its        *)
(* undo/redo history, clipboard and pointer/keyboard handlers.             *)
(*                                                                         *)
(* Field coordinates are fixed-point integers in hundredths of a field     *)
(* unit (inch): 12.0 in is 1200.  Angles returned by atan2 are held in     *)
(* units of 11.25 degrees (1/32 turn); an odd value k stands for any angle *)
(* strictly between (k-1) and (k+1) units, so every comparison of          *)
(* |a - angle| between two canonical directions (multiples of 4 units,     *)
(* whose midpoints are even) is decided exactly.                           *)
(***************************************************************************)
EXTENDS Integers, Sequences, FiniteSets, TLC

VARIABLES
  path_points,            \* list of (x, y)
  functions,              \* list of Function objects
  start_pos,              \* <<>> (None) or <<x, y, rotation>>
  function_templates,     \* list of names
  undo_stack, redo_stack, \* lists of snapshots
  suppress_snapshot,      \* _suppress_snapshot
  clipboard,              \* [type, func, path]; type "none" is None
  ctx_func,               \* _ctx_func: unset, an element of functions, or a detached object
  drawing, last_point,    \* last_point: <<>> (None) or <<x, y>>
  placing_start, placing_function,
  selected_function,      \* "" is None
  selected_function_type, selected_action,
  snap_enabled,
  snap_inches, grid_offset, \* preferences applied by _apply_prefs
  scale, offset_x, offset_y, \* view of the path window (binary floating point)
  env_scale, env_offset_x, env_offset_y, \* view of the environment editor
  env,                    \* EnvironmentEditor.env (PathTracer.active_env): <<>> (None) or <<Environment>>
  uid_counter,            \* _uid_counter
  tool, selected_obj,     \* editor tool; selected_obj with selected_type
  dragging, drag_start_field, drag_obj_origin,
  placing, place_anchor,  \* place_anchor: <<>> (None) or <<x, y>>
  status_msg,
  lmb_down,               \* environment: the primary button is physically held
  ev,                     \* history: the last event delivered and its inputs
  g_trace,                \* history: how the current/last trace gesture began
  g_pre,                  \* history: store and undo stack just before the last undo
  g_run,                  \* history: a run of N snapshot-then-mutate steps and the undos after it
  g_work                  \* history: snapshots pushed plus path points traced so far

vars == <<path_points, functions, start_pos, function_templates, undo_stack,
          redo_stack, suppress_snapshot, clipboard, ctx_func, drawing,
          last_point, placing_start, placing_function, selected_function,
          selected_function_type, selected_action, snap_enabled, status_msg,
          lmb_down, ev, g_trace, g_pre, g_run, g_work,
          snap_inches, grid_offset, scale, offset_x, offset_y,
          env_scale, env_offset_x, env_offset_y,
          env, uid_counter, tool, selected_obj, dragging, drag_start_field,
          drag_obj_origin, placing, place_anchor>>

storeVars == <<path_points, functions, start_pos, function_templates>>
histVars == <<undo_stack, redo_stack, suppress_snapshot>>
modeVars == <<placing_start, placing_function, selected_function,
              selected_function_type, selected_action>>
prefVars == <<snap_inches, grid_offset>>
viewVars == <<scale, offset_x, offset_y>>
envViewVars == <<env_scale, env_offset_x, env_offset_y>>
envVars == <<env, uid_counter, tool, selected_obj, dragging, drag_start_field,
             drag_obj_origin, placing, place_anchor>>

-----------------------------------------------------------------------------
(* Program constants, in hundredths of a field unit where they are lengths *)

MAX_UNDO == 100

STEP_SIZE == 50

MOVE_THRESHOLD == 5

FUNC_SIZE == 1200

SNAP_INCHES == 2400

PASTE_OFFSET == 600

START_HIT_RADIUS == 1800

GRID_OFFSET == 0

\* cos(45 deg) * step and sin(45 deg) * step, to the hundredth
DEFAULT_SCALE == 5

MIN_SCALE == 1

MAX_SCALE == 15

ENV_SCALE == 4

ENV_OFFSET_X == 250

ENV_OFFSET_Y == 40

FIELD_WIDTH_IN == 144

FIELD_HEIGHT_IN == 144

MENU_BAR_HEIGHT == 22

DIAG_STEP == (STEP_SIZE * 7071) \div 10000

SNAP_ANGLES == <<0, 4, 8, 12, 16, 20, 24, 28>>

(* Bounds of the model *)

MaxWork == 3

MaxPre == 2

MaxFree == 1

MaxPlace == 2

\* events in a behaviour of the environment specification
MaxEnv == 4

\* events in a behaviour of the file specification
MaxLoad == 4

\* events in a behaviour of the mixed-edit specification
MaxMixed == 5

\* zoom events in a behaviour of the view specification
MaxZoom == 7

\* events of a behaviour of the zoom specification that may be operations
\* on the path view
MaxFit == 3

\* the binary floating point of the view arithmetic: fraction bits of the
\* finest value and bits of the significand
FRAC_BITS == 8

MANT_BITS == 8

-----------------------------------------------------------------------------
(* Helpers *)

Abs(x) == IF x < 0 THEN -x ELSE x

NoName == ""

\* no environment is open
NoEnv == <<>>

\* Python round(n / d) for d > 0: nearest integer, halves to the even one
PyRound(n, d) ==
  LET lo == n \div d
      r2 == 2 * (n % d)
  IN  IF r2 < d THEN lo
      ELSE IF r2 > d THEN lo + 1
      ELSE IF lo % 2 = 0 THEN lo ELSE lo + 1

\* Function.to_dict: attribute function_type is written under key "type"
ToDict(f) ==
  [name |-> f.name, x |-> f.x, y |-> f.y, rotation |-> f.rotation,
   type |-> f.function_type, action |-> f.action]

\* Function.from_dict on a dict that carries every key
FromDict(d) ==
  [name |-> d.name, x |-> d.x, y |-> d.y, rotation |-> d.rotation,
   function_type |-> d.type, action |-> d.action]

NewFunction(name, x, y, rotation, ftype, action) ==
  [name |-> name, x |-> x, y |-> y, rotation |-> rotation,
   function_type |-> ftype, action |-> action]

SeqMap(Op(_), s) == [i \in 1..Len(s) |-> Op(s[i])]

-----------------------------------------------------------------------------
(* _ctx_func: Python object identity, kept as an alias into functions *)

CtxUnset == [state |-> "unset", idx |-> 0, obj |-> <<>>]

CtxLinked(i) == [state |-> "linked", idx |-> i, obj |-> <<>>]

CtxDetachedObj(f) == [state |-> "detached", idx |-> 0, obj |-> <<f>>]

\* the list now holds other objects: a linked _ctx_func keeps the old object
CtxDetach(c, funcs) ==
  IF c.state = "linked" THEN CtxDetachedObj(funcs[c.idx]) ELSE c

\* hasattr(self, "_ctx_func") and self._ctx_func in self.functions
CtxInFunctions == ctx_func.state = "linked"

CtxObject == IF ctx_func.state = "linked" THEN functions[ctx_func.idx]
             ELSE ctx_func.obj[1]

RemoveAt(s, i) == [j \in 1..(Len(s) - 1) |-> IF j < i THEN s[j] ELSE s[j + 1]]

-----------------------------------------------------------------------------
(* Binary floating point, round to nearest, ties to even.  A value is the  *)
(* integer count of 2^-FRAC_BITS it holds; a value of magnitude 2^MANT_BITS *)
(* units or more keeps only its MANT_BITS leading bits.                    *)

RECURSIVE Pow2(_)
Pow2(n) == IF n = 0 THEN 1 ELSE 2 * Pow2(n - 1)

UNIT == Pow2(FRAC_BITS)

\* 2^MANT_BITS: the significands are the integers below it
MANT == Pow2(MANT_BITS)

\* the smallest power of two above q, from u upwards
RECURSIVE Ulp(_, _)
Ulp(q, u) == IF q < u THEN u ELSE Ulp(q, 2 * u)

\* the float nearest to the exact quotient n / d (units), ties to even: the
\* spacing u of the floats around n / d is the smallest power of two (in
\* units) for which |n / d| < 2^MANT_BITS * u
Fl(n, d) ==
  LET num == n
      den == d
      u == Ulp(Abs(num) \div (MANT * den), 1)
  IN  PyRound(num, den * u) * u

FAdd(a, b) == Fl(a + b, 1)

FSub(a, b) == Fl(a - b, 1)

FMul(a, b) == Fl(a * b, UNIT)

FDiv(a, b) == Fl(a * UNIT, b)

Max(a, b) == IF a >= b THEN a ELSE b

Min(a, b) == IF a <= b THEN a ELSE b

-----------------------------------------------------------------------------
(* Undo / Redo *)

Store == [path_points |-> path_points, functions |-> functions,
          start_pos |-> start_pos, function_templates |-> function_templates]

\* faulty variant: the start position is left out of the snapshot
SnapshotNoStart ==
  [path_points |-> path_points,
   functions |-> SeqMap(ToDict, functions),
   start_pos |-> <<>>,
   function_templates |-> function_templates]

\* _snapshot
Snapshot ==
  [path_points |-> path_points,
   functions |-> SeqMap(ToDict, functions),
   start_pos |-> start_pos,
   function_templates |-> function_templates]

\* faulty variant: a restore also drops the environment, which no snapshot holds
RestoreDropEnv(snap) ==
  /\ path_points' = snap.path_points
  /\ functions' = SeqMap(FromDict, snap.functions)
  /\ start_pos' = snap.start_pos
  /\ function_templates' = snap.function_templates
  /\ ctx_func' = CtxDetach(ctx_func, functions)
  /\ suppress_snapshot' = FALSE
  /\ env' = NoEnv

\* faulty variant: the guard flag stays set after the restore
RestoreKeepGuard(snap) ==
  /\ path_points' = snap.path_points
  /\ functions' = SeqMap(FromDict, snap.functions)
  /\ start_pos' = snap.start_pos
  /\ function_templates' = snap.function_templates
  /\ ctx_func' = CtxDetach(ctx_func, functions)
  /\ suppress_snapshot' = TRUE
  /\ UNCHANGED env

\* _restore; the environment is not part of a snapshot
Restore(snap) ==
  /\ path_points' = snap.path_points
  /\ functions' = SeqMap(FromDict, snap.functions)
  /\ start_pos' = snap.start_pos
  /\ function_templates' = snap.function_templates
  /\ ctx_func' = CtxDetach(ctx_func, functions)
  /\ suppress_snapshot' = FALSE
  /\ UNCHANGED env

\* faulty variant: nothing is evicted
PushNoEvict(stack, snap) == Append(stack, snap)

\* push_undo, the undo stack: append, then drop the oldest beyond MAX_UNDO
PushStack(stack, snap) ==
  LET s == Append(stack, snap)
  IN  IF Len(s) > MAX_UNDO THEN Tail(s) ELSE s

\* faulty variant: the redo stack survives a push
PushKeepRedo(redo) == redo

\* push_undo, the redo stack: cleared
PushRedo(redo) == <<>>

\* push_undo as called at the start of a mutating operation
push_undo ==
  IF suppress_snapshot
    THEN UNCHANGED <<undo_stack, redo_stack>>
    ELSE /\ undo_stack' = PushStack(undo_stack, Snapshot)
         /\ redo_stack' = PushRedo(redo_stack)


-----------------------------------------------------------------------------
(* Status messages (formatted numbers and names left out) *)

MsgLoaded == "Loaded"

MsgNothingToUndo == "Nothing to undo"

MsgNothingToRedo == "Nothing to redo"

MsgClipboardEmpty == "Clipboard empty"

MsgPlaceStartFirst == "Place START position first (press P)"

(* The last event delivered: handler or operation name and its inputs *)

NoPt == <<>>

Ev(op, btn, pt, hov) == [op |-> op, btn |-> btn, pt |-> pt, hov |-> hov]

EvOp(op) == Ev(op, -1, NoPt, TRUE)

-----------------------------------------------------------------------------
(* Coordinate conversion and zoom of the path window and of the            *)
(* environment editor                                                      *)

editVars == <<storeVars, histVars, modeVars, prefVars, clipboard, ctx_func,
              drawing, last_point, snap_enabled, status_msg, lmb_down>>

\* faulty variant: the offset is not taken off before dividing
ScreenToFieldNoOffset(s, off, sc) == FDiv(s, sc)

ScreenToField(s, off, sc) == FDiv(FSub(s, off), sc)

FieldToScreen(f, off, sc) == FAdd(FMul(f, sc), off)

screen_to_field(sx, sy) ==
  <<ScreenToField(sx, offset_x, scale), ScreenToField(sy, offset_y, scale)>>

field_to_screen(fx, fy) ==
  <<FieldToScreen(fx, offset_x, scale), FieldToScreen(fy, offset_y, scale)>>

\* EnvironmentEditor._s2f, _f2s
s2f(sx, sy) ==
  <<ScreenToField(sx, env_offset_x, env_scale),
    ScreenToField(sy, env_offset_y, env_scale)>>

f2s(fx, fy) ==
  <<FieldToScreen(fx, env_offset_x, env_scale),
    FieldToScreen(fy, env_offset_y, env_scale)>>

\* faulty variant: the offset is not moved when the scale changes
on_mouse_wheel_keep_offset(hov, mx, my, app_data) ==
  /\ ev' = [op |-> "on_mouse_wheel", btn |-> app_data, pt |-> <<mx, my>>,
            hov |-> hov]
  /\ IF ~hov
       THEN UNCHANGED viewVars
       ELSE /\ scale' = Max(MIN_SCALE * UNIT, Min(MAX_SCALE * UNIT,
                           FAdd(scale, IF app_data > 0 THEN UNIT ELSE -UNIT)))
            /\ UNCHANGED <<offset_x, offset_y>>
  /\ UNCHANGED <<editVars, envVars, envViewVars>>

on_mouse_wheel(hov, mx, my, app_data) ==
  /\ ev' = [op |-> "on_mouse_wheel", btn |-> app_data, pt |-> <<mx, my>>,
            hov |-> hov]
  /\ IF ~hov
       THEN UNCHANGED viewVars
       ELSE LET f == screen_to_field(mx, my)
                old == scale
                new == Max(MIN_SCALE * UNIT, Min(MAX_SCALE * UNIT,
                         FAdd(scale, IF app_data > 0 THEN UNIT ELSE -UNIT)))
            IN  /\ scale' = new
                /\ IF old # new
                     THEN /\ offset_x' = FAdd(offset_x,
                               FSub(mx, FieldToScreen(f[1], offset_x, new)))
                          /\ offset_y' = FAdd(offset_y,
                               FSub(my, FieldToScreen(f[2], offset_y, new)))
                     ELSE UNCHANGED <<offset_x, offset_y>>
  /\ UNCHANGED <<editVars, envVars, envViewVars>>

\* EnvironmentEditor._on_mouse_wheel; shown: the editor window is built and
\* shown
env_on_mouse_wheel(shown, hov, mx, my, app_data) ==
  /\ ev' = [op |-> "_on_mouse_wheel", btn |-> app_data, pt |-> <<mx, my>>,
            hov |-> env # NoEnv /\ shown /\ hov]
  /\ IF env = NoEnv \/ ~shown \/ ~hov
       THEN UNCHANGED envViewVars
       ELSE LET f == s2f(mx, my)
                old == env_scale
                new == Max(1 * UNIT, Min(15 * UNIT,
                         FAdd(env_scale, IF app_data > 0 THEN UNIT \div 2
                                                         ELSE -(UNIT \div 2))))
            IN  /\ env_scale' = new
                /\ IF old # new
                     THEN /\ env_offset_x' = FAdd(env_offset_x,
                               FSub(mx, FieldToScreen(f[1], env_offset_x, new)))
                          /\ env_offset_y' = FAdd(env_offset_y,
                               FSub(my, FieldToScreen(f[2], env_offset_y, new)))
                     ELSE UNCHANGED <<env_offset_x, env_offset_y>>
  /\ UNCHANGED <<editVars, envVars, viewVars>>

zoom_in ==
  /\ ev' = EvOp("zoom_in")
  /\ scale' = Min(MAX_SCALE * UNIT, FAdd(scale, UNIT))
  /\ UNCHANGED <<offset_x, offset_y, editVars, envVars, envViewVars>>

zoom_out ==
  /\ ev' = EvOp("zoom_out")
  /\ scale' = Max(MIN_SCALE * UNIT, FSub(scale, UNIT))
  /\ UNCHANGED <<offset_x, offset_y, editVars, envVars, envViewVars>>

zoom_reset ==
  /\ ev' = EvOp("zoom_reset")
  /\ scale' = DEFAULT_SCALE * UNIT
  /\ offset_x' = 0
  /\ offset_y' = 0
  /\ UNCHANGED <<editVars, envVars, envViewVars>>

\* Python int(a / b) for b > 0: the quotient truncated towards zero
IntDiv(a, b) == IF a >= 0 THEN a \div b ELSE -((-a) \div b)

\* faulty variant: the fitted scale is not clamped
zoom_fit_unclamped(w, h) ==
  LET vw == w
      vh == h - MENU_BAR_HEIGHT
      sc == Min(IntDiv(vw, FIELD_WIDTH_IN), IntDiv(vh, FIELD_HEIGHT_IN))
  IN  /\ ev' = Ev("zoom_fit", -1, <<w, h>>, TRUE)
      /\ scale' = sc * UNIT
      /\ offset_x' = FDiv((vw - FIELD_WIDTH_IN * sc) * UNIT, 2 * UNIT)
      /\ offset_y' = FAdd(FDiv((vh - FIELD_HEIGHT_IN * sc) * UNIT, 2 * UNIT),
                          MENU_BAR_HEIGHT * UNIT)
      /\ UNCHANGED <<editVars, envVars, envViewVars>>

\* w, h: the viewport's client width and height
zoom_fit(w, h) ==
  LET vw == w
      vh == h - MENU_BAR_HEIGHT
      sc == Max(MIN_SCALE, Min(MAX_SCALE,
              Min(IntDiv(vw, FIELD_WIDTH_IN), IntDiv(vh, FIELD_HEIGHT_IN))))
  IN  /\ ev' = Ev("zoom_fit", -1, <<w, h>>, TRUE)
      /\ scale' = sc * UNIT
      /\ offset_x' = FDiv((vw - FIELD_WIDTH_IN * sc) * UNIT, 2 * UNIT)
      /\ offset_y' = FAdd(FDiv((vh - FIELD_HEIGHT_IN * sc) * UNIT, 2 * UNIT),
                          MENU_BAR_HEIGHT * UNIT)
      /\ UNCHANGED <<editVars, envVars, envViewVars>>

-----------------------------------------------------------------------------
(* The environment (src/environment.py).  Environment coordinates are      *)
(* integers counting 1 / EU inch.  An identifier is <<prefix, n>>: _uid    *)
(* makes "prefix_n"; a name without a number has n = 0.  A label is        *)
(* <<text, n>> likewise: f"Start {n}" is <<"Start", n>>.                   *)

EU == 2

NoSel == [type |-> "none", idx |-> 0, obj |-> <<>>]

\* selected_obj is element idx of the category's list of the current env
Sel(type, i) == [type |-> type, idx |-> i, obj |-> <<>>]

\* selected_obj is an object of an environment that is no longer edited
SelDetached(type, o) == [type |-> type, idx |-> 0, obj |-> <<o>>]

TOOL_SELECT == "select"

TOOL_START == "start"

TOOL_OBS_RECT == "obs_rect"

TOOL_OBS_CIRC == "obs_circle"

TOOL_OBS_LINE == "obs_line"

TOOL_ZONE == "zone"

TOOL_WAYPOINT == "waypoint"

\* the constructors; id is <<>> when the keyword is absent, and n is the
\* value _uid returns
StartPosition(id, n, label, alliance, x, y, rotation) ==
  [id |-> IF id = <<>> THEN <<"start", n>> ELSE id, label |-> label,
   alliance |-> alliance, x |-> x, y |-> y, rotation |-> rotation]

Obstruction(id, n, label, shape, x, y, width, height, radius, x2, y2, rotation) ==
  [id |-> IF id = <<>> THEN <<"obs", n>> ELSE id, label |-> label,
   shape |-> shape, x |-> x, y |-> y, width |-> width, height |-> height,
   radius |-> radius, x2 |-> x2, y2 |-> y2, rotation |-> rotation]

Zone(id, n, label, x, y, width, height, alliance) ==
  [id |-> IF id = <<>> THEN <<"zone", n>> ELSE id, label |-> label,
   x |-> x, y |-> y, width |-> width, height |-> height, alliance |-> alliance]

Waypoint(id, n, label, x, y, radius) ==
  [id |-> IF id = <<>> THEN <<"wp", n>> ELSE id, label |-> label,
   x |-> x, y |-> y, radius |-> radius]

Environment(starts, obs, zones, wps, vfuncs) ==
  [robot_width_in |-> 18, robot_length_in |-> 18,
   start_positions |-> starts, obstructions |-> obs, zones |-> zones,
   waypoints |-> wps, valid_functions |-> vfuncs]

\* Environment.default(); c is _uid_counter before the call
EnvDefault(c) ==
  Environment(
    <<StartPosition(<<"red_close", 0>>, c + 1, <<"Red Close", 0>>, "red", 12 * EU, 132 * EU, 0),
      StartPosition(<<"red_far", 0>>, c + 2, <<"Red Far", 0>>, "red", 36 * EU, 132 * EU, 0),
      StartPosition(<<"blue_close", 0>>, c + 3, <<"Blue Close", 0>>, "blue", 132 * EU, 12 * EU, 180),
      StartPosition(<<"blue_far", 0>>, c + 4, <<"Blue Far", 0>>, "blue", 108 * EU, 12 * EU, 180)>>,
    <<>>, <<>>, <<>>, <<"intake", "outtake", "score", "park">>)

\* the list of a category
Category(e, type) ==
  CASE type = "start" -> e.start_positions
    [] type = "wp" -> e.waypoints
    [] type = "obs" -> e.obstructions
    [] type = "zone" -> e.zones

Sq(x) == x * x

\* the conditions of _hit_test, one per category
HitStart(e, sp, fx, fy) ==
  /\ 2 * Abs(fx - sp.x) < e.robot_width_in * EU
  /\ 2 * Abs(fy - sp.y) < e.robot_length_in * EU

HitWaypoint(wp, fx, fy) ==
  Sq(fx - wp.x) + Sq(fy - wp.y) < Sq(Max(wp.radius, 4 * EU))

\* math.hypot(fx - px, fy - py) < 4 for the point (px, py) of the segment
\* nearest to (fx, fy): n / m is the parameter t before clamping to [0, 1]
HitLine(obs, fx, fy) ==
  LET dx == obs.x2 - obs.x
      dy == obs.y2 - obs.y
      m == Sq(dx) + Sq(dy)
      n == (fx - obs.x) * dx + (fy - obs.y) * dy
      d0 == Sq(fx - obs.x) + Sq(fy - obs.y)
  IN  IF n <= 0 THEN d0 < Sq(4 * EU)
      ELSE IF n >= m THEN Sq(fx - obs.x2) + Sq(fy - obs.y2) < Sq(4 * EU)
      ELSE m * (d0 - Sq(4 * EU)) < Sq(n)

HitObstruction(obs, fx, fy) ==
  CASE obs.shape = "rectangle" ->
         /\ obs.x <= fx /\ fx <= obs.x + obs.width
         /\ obs.y <= fy /\ fy <= obs.y + obs.height
    [] obs.shape = "circle" ->
         obs.radius >= 0 /\ Sq(fx - obs.x) + Sq(fy - obs.y) <= Sq(obs.radius)
    [] obs.shape = "line" -> HitLine(obs, fx, fy)
    [] OTHER -> FALSE

HitZone(z, fx, fy) ==
  /\ z.x <= fx /\ fx <= z.x + z.width
  /\ z.y <= fy /\ fy <= z.y + z.height

Hits(e, type, o, fx, fy) ==
  CASE type = "start" -> HitStart(e, o, fx, fy)
    [] type = "wp" -> HitWaypoint(o, fx, fy)
    [] type = "obs" -> HitObstruction(o, fx, fy)
    [] type = "zone" -> HitZone(o, fx, fy)

\* for o in reversed(list): the first that matches
FirstReversed(e, type, fx, fy) ==
  LET lst == Category(e, type)
      hit == {i \in 1..Len(lst) : Hits(e, type, lst[i], fx, fy)}
  IN  IF hit = {} THEN 0 ELSE CHOOSE i \in hit : \A j \in hit : j <= i

\* faulty variant: obstructions are tested before waypoints
hit_test_obs_first(e, fx, fy) ==
  IF FirstReversed(e, "start", fx, fy) # 0
    THEN Sel("start", FirstReversed(e, "start", fx, fy))
  ELSE IF FirstReversed(e, "obs", fx, fy) # 0
    THEN Sel("obs", FirstReversed(e, "obs", fx, fy))
  ELSE IF FirstReversed(e, "wp", fx, fy) # 0
    THEN Sel("wp", FirstReversed(e, "wp", fx, fy))
  ELSE IF FirstReversed(e, "zone", fx, fy) # 0
    THEN Sel("zone", FirstReversed(e, "zone", fx, fy))
  ELSE NoSel

\* _hit_test on a loaded environment e
hit_test(e, fx, fy) ==
  IF FirstReversed(e, "start", fx, fy) # 0
    THEN Sel("start", FirstReversed(e, "start", fx, fy))
  ELSE IF FirstReversed(e, "wp", fx, fy) # 0
    THEN Sel("wp", FirstReversed(e, "wp", fx, fy))
  ELSE IF FirstReversed(e, "obs", fx, fy) # 0
    THEN Sel("obs", FirstReversed(e, "obs", fx, fy))
  ELSE IF FirstReversed(e, "zone", fx, fy) # 0
    THEN Sel("zone", FirstReversed(e, "zone", fx, fy))
  ELSE NoSel

\* Python round(v) of a coordinate v (in 1 / EU inch): a whole number of inches
RoundIn(v) == PyRound(v, EU) * EU

\* round(math.hypot(dx, dy)) in inches, from d2 = dx^2 + dy^2: the whole
\* number r of inches nearest to the root, the even one of two equally near
RoundHypot(d2) ==
  LET near == {r \in 0..(2 * FIELD_WIDTH_IN) :
                 /\ (r = 0 \/ Sq((2 * r - 1) * EU) <= 4 * d2)
                 /\ 4 * d2 <= Sq((2 * r + 1) * EU)}
  IN  CHOOSE r \in near : \A q \in near : q = r \/ r % 2 = 0

\* self.env is replaced: the selection keeps the object of the old one
SelDetach(sel, e) ==
  IF sel.type # "none" /\ sel.idx # 0
    THEN SelDetached(sel.type, Category(e, sel.type)[sel.idx])
    ELSE sel

\* the selected object
SelObj(sel, e) == IF sel.idx # 0 THEN Category(e, sel.type)[sel.idx] ELSE sel.obj[1]

WithCategory(e, type, lst) ==
  CASE type = "start" -> [e EXCEPT !.start_positions = lst]
    [] type = "wp" -> [e EXCEPT !.waypoints = lst]
    [] type = "obs" -> [e EXCEPT !.obstructions = lst]
    [] type = "zone" -> [e EXCEPT !.zones = lst]

Remove(lst, i) == [k \in 1..(Len(lst) - 1) |-> IF k < i THEN lst[k] ELSE lst[k + 1]]

\* _sync_env_to_field: the names of valid_functions not yet among the templates
RECURSIVE SyncTemplates(_, _)
SyncTemplates(templates, names) ==
  IF names = <<>> THEN templates
  ELSE SyncTemplates(
         IF \E i \in 1..Len(templates) : templates[i] = Head(names)
           THEN templates ELSE Append(templates, Head(names)),
         Tail(names))

\* kw.get(key, default)
Get(d, key, default) == IF key \in DOMAIN d THEN d[key] ELSE default

StartPositionToDict(o) ==
  [id |-> o.id, label |-> o.label, alliance |-> o.alliance, x |-> o.x, y |-> o.y,
   rotation |-> o.rotation]

\* faulty variant: the rotation is not written
ObstructionToDictNoRotation(o) ==
  IF o.shape = "rectangle"
    THEN [id |-> o.id, label |-> o.label, shape |-> o.shape, x |-> o.x, y |-> o.y,
          width |-> o.width, height |-> o.height]
  ELSE IF o.shape = "circle"
    THEN [id |-> o.id, label |-> o.label, shape |-> o.shape, x |-> o.x, y |-> o.y,
          radius |-> o.radius]
  ELSE [id |-> o.id, label |-> o.label, shape |-> o.shape, x |-> o.x, y |-> o.y,
        x2 |-> o.x2, y2 |-> o.y2]

\* Obstruction.to_dict: the keys written depend on the shape
ObstructionToDict(o) ==
  IF o.shape = "rectangle"
    THEN [id |-> o.id, label |-> o.label, shape |-> o.shape, x |-> o.x, y |-> o.y,
          rotation |-> o.rotation, width |-> o.width, height |-> o.height]
  ELSE IF o.shape = "circle"
    THEN [id |-> o.id, label |-> o.label, shape |-> o.shape, x |-> o.x, y |-> o.y,
          rotation |-> o.rotation, radius |-> o.radius]
  ELSE IF o.shape = "line"
    THEN [id |-> o.id, label |-> o.label, shape |-> o.shape, x |-> o.x, y |-> o.y,
          rotation |-> o.rotation, x2 |-> o.x2, y2 |-> o.y2]
  ELSE [id |-> o.id, label |-> o.label, shape |-> o.shape, x |-> o.x, y |-> o.y,
        rotation |-> o.rotation]

ZoneToDict(o) ==
  [id |-> o.id, label |-> o.label, x |-> o.x, y |-> o.y, width |-> o.width,
   height |-> o.height, alliance |-> o.alliance]

WaypointToDict(o) ==
  [id |-> o.id, label |-> o.label, x |-> o.x, y |-> o.y, radius |-> o.radius]

\* Environment.to_dict
EnvToDict(e) ==
  [metadata |-> [robot_width_in |-> e.robot_width_in,
                 robot_length_in |-> e.robot_length_in],
   start_positions |-> SeqMap(StartPositionToDict, e.start_positions),
   obstructions |-> SeqMap(ObstructionToDict, e.obstructions),
   zones |-> SeqMap(ZoneToDict, e.zones),
   waypoints |-> SeqMap(WaypointToDict, e.waypoints),
   valid_functions |-> e.valid_functions]

\* Environment.from_dict(d); c is _uid_counter before the call.  Every
\* constructor call draws a number from _uid, used or not; a key the document
\* does not hold takes the constructor's default.
EnvFromDict(d, c) ==
  LET ns == Len(d.start_positions)
      no == Len(d.obstructions)
      nz == Len(d.zones)
      m == Get(d, "metadata", <<>>)
      e == Environment(
             [i \in 1..ns |->
                LET a == d.start_positions[i]
                IN  StartPosition(Get(a, "id", <<>>), c + i, Get(a, "label", <<"Start", 0>>),
                                  Get(a, "alliance", "red"), Get(a, "x", 12 * EU),
                                  Get(a, "y", 12 * EU), Get(a, "rotation", 0))],
             [i \in 1..no |->
                LET a == d.obstructions[i]
                IN  Obstruction(Get(a, "id", <<>>), c + ns + i,
                                Get(a, "label", <<"Obstruction", 0>>),
                                Get(a, "shape", "rectangle"), Get(a, "x", 0),
                                Get(a, "y", 0), Get(a, "width", 24 * EU),
                                Get(a, "height", 24 * EU), Get(a, "radius", 12 * EU),
                                Get(a, "x2", 24 * EU), Get(a, "y2", 0),
                                Get(a, "rotation", 0))],
             [i \in 1..nz |->
                LET a == d.zones[i]
                IN  Zone(Get(a, "id", <<>>), c + ns + no + i, Get(a, "label", <<"Zone", 0>>),
                         Get(a, "x", 0), Get(a, "y", 0), Get(a, "width", 48 * EU),
                         Get(a, "height", 48 * EU), Get(a, "alliance", "neutral"))],
             [i \in 1..Len(d.waypoints) |->
                LET a == d.waypoints[i]
                IN  Waypoint(Get(a, "id", <<>>), c + ns + no + nz + i,
                             Get(a, "label", <<"Waypoint", 0>>), Get(a, "x", 72 * EU),
                             Get(a, "y", 72 * EU), Get(a, "radius", 4 * EU))],
             d.valid_functions)
  IN  [e EXCEPT !.robot_width_in = Get(m, "robot_width_in", @),
                !.robot_length_in = Get(m, "robot_length_in", @)]

EntityCount(d) ==
  Len(d.start_positions) + Len(d.obstructions) + Len(d.zones) + Len(d.waypoints)

\* PathTracer._env_new: EnvironmentEditor.open_new, then _sync_env_to_field
env_new ==
  /\ ev' = EvOp("_env_new")
  /\ env' = <<EnvDefault(uid_counter)>>
  /\ uid_counter' = uid_counter + 4
  /\ selected_obj' = IF env = NoEnv THEN selected_obj ELSE SelDetach(selected_obj, env[1])
  /\ function_templates' = SyncTemplates(function_templates, env'[1].valid_functions)
  /\ status_msg' = "New environment created"
  /\ UNCHANGED <<path_points, functions, start_pos, histVars, modeVars, prefVars,
                 clipboard, ctx_func, drawing, last_point, snap_enabled, lmb_down,
                 viewVars, envViewVars, tool, dragging, drag_start_field,
                 drag_obj_origin, placing, place_anchor>>

\* PathTracer._env_open_file_cb with a readable document d
env_open_file_cb(d) ==
  /\ ev' = EvOp("_env_open_file_cb")
  /\ env' = <<EnvFromDict(d, uid_counter)>>
  /\ uid_counter' = uid_counter + EntityCount(d)
  /\ selected_obj' = IF env = NoEnv THEN selected_obj ELSE SelDetach(selected_obj, env[1])
  /\ function_templates' = SyncTemplates(function_templates, env'[1].valid_functions)
  /\ status_msg' = "Environment loaded"
  /\ UNCHANGED <<path_points, functions, start_pos, histVars, modeVars, prefVars,
                 clipboard, ctx_func, drawing, last_point, snap_enabled, lmb_down,
                 viewVars, envViewVars, tool, dragging, drag_start_field,
                 drag_obj_origin, placing, place_anchor>>

\* PathTracer._env_close: EnvironmentEditor.close
env_close ==
  /\ ev' = EvOp("_env_close")
  /\ env' = NoEnv
  /\ selected_obj' = NoSel
  /\ status_msg' = "Environment closed"
  /\ UNCHANGED <<storeVars, histVars, modeVars, prefVars, clipboard, ctx_func,
                 drawing, last_point, snap_enabled, lmb_down, viewVars,
                 envViewVars, uid_counter, tool, dragging, drag_start_field,
                 drag_obj_origin, placing, place_anchor>>

\* what the editor's handlers leave alone
notEnvVars == <<editVars, viewVars, envViewVars>>

\* _select(obj, type) of a newly appended entity, back in the select tool
AppendAndSelect(type, o) ==
  /\ env' = <<WithCategory(env[1], type, Append(Category(env[1], type), o))>>
  /\ selected_obj' = Sel(type, Len(Category(env[1], type)) + 1)
  /\ uid_counter' = uid_counter + 1
  /\ tool' = TOOL_SELECT

\* _finish_placement(fx, fy)
finish_placement(fx, fy) ==
  LET ax == place_anchor[1]
      ay == place_anchor[2]
      x0 == Min(ax, fx)
      y0 == Min(ay, fy)
      w == Abs(fx - ax)
      h == Abs(fy - ay)
      n == uid_counter + 1
      k == Len(env[1].obstructions) + 1
  IN  /\ CASE tool = TOOL_OBS_RECT ->
               AppendAndSelect("obs",
                 Obstruction(<<>>, n, <<"Obstacle", k>>, "rectangle", RoundIn(x0),
                             RoundIn(y0), RoundIn(Max(w, 12 * EU)),
                             RoundIn(Max(h, 12 * EU)), 12 * EU, 24 * EU, 0, 0))
            [] tool = TOOL_OBS_CIRC ->
               AppendAndSelect("obs",
                 Obstruction(<<>>, n, <<"Obstacle", k>>, "circle", RoundIn(ax),
                             RoundIn(ay), 24 * EU, 24 * EU,
                             Max(4, RoundHypot(Sq(fx - ax) + Sq(fy - ay))) * EU,
                             24 * EU, 0, 0))
            [] tool = TOOL_OBS_LINE ->
               AppendAndSelect("obs",
                 Obstruction(<<>>, n, <<"Wall", k>>, "line", RoundIn(ax), RoundIn(ay),
                             24 * EU, 24 * EU, 12 * EU, RoundIn(fx), RoundIn(fy), 0))
            [] tool = TOOL_ZONE ->
               AppendAndSelect("zone",
                 Zone(<<>>, n, <<"Zone", Len(env[1].zones) + 1>>, RoundIn(x0),
                      RoundIn(y0), RoundIn(Max(w, 24 * EU)),
                      RoundIn(Max(h, 24 * EU)), "neutral"))
      /\ placing' = FALSE
      /\ place_anchor' = <<>>
      /\ UNCHANGED <<dragging, drag_start_field, drag_obj_origin>>

\* EnvironmentEditor._on_mouse_down; shown: the window is built and shown.
\* The middle button (panning) is not among the inputs.
env_on_mouse_down(shown, hov, button, fx, fy) ==
  /\ ev' = Ev("_on_mouse_down", button, <<fx, fy>>, env # NoEnv /\ shown /\ hov)
  /\ IF env = NoEnv \/ ~shown \/ ~hov
       THEN UNCHANGED envVars
     ELSE IF button = 0 /\ tool = TOOL_SELECT
       THEN LET r == hit_test(env[1], fx, fy)
            IN  /\ selected_obj' = r
                /\ IF r # NoSel
                     THEN /\ dragging' = TRUE
                          /\ drag_start_field' = <<fx, fy>>
                          /\ drag_obj_origin' = <<SelObj(r, env[1]).x, SelObj(r, env[1]).y>>
                     ELSE UNCHANGED <<dragging, drag_start_field, drag_obj_origin>>
                /\ UNCHANGED <<env, uid_counter, tool, placing, place_anchor>>
     ELSE IF button = 0 /\ tool = TOOL_START
       THEN /\ AppendAndSelect("start",
                 StartPosition(<<>>, uid_counter + 1,
                               <<"Start", Len(env[1].start_positions) + 1>>, "red",
                               RoundIn(fx), RoundIn(fy), 0))
            /\ UNCHANGED <<dragging, drag_start_field, drag_obj_origin, placing,
                           place_anchor>>
     ELSE IF button = 0 /\ tool = TOOL_WAYPOINT
       THEN /\ AppendAndSelect("wp",
                 Waypoint(<<>>, uid_counter + 1,
                          <<"Waypoint", Len(env[1].waypoints) + 1>>,
                          RoundIn(fx), RoundIn(fy), 4 * EU))
            /\ UNCHANGED <<dragging, drag_start_field, drag_obj_origin, placing,
                           place_anchor>>
     ELSE IF button = 0 /\ ~placing
       THEN /\ placing' = TRUE
            /\ place_anchor' = <<fx, fy>>
            /\ UNCHANGED <<env, uid_counter, tool, selected_obj, dragging,
                           drag_start_field, drag_obj_origin>>
     ELSE IF button = 0
       THEN finish_placement(fx, fy)
     ELSE IF button = 1 /\ placing
       THEN /\ placing' = FALSE
            /\ place_anchor' = <<>>
            /\ UNCHANGED <<env, uid_counter, tool, selected_obj, dragging,
                           drag_start_field, drag_obj_origin>>
     ELSE IF button = 1
       THEN /\ tool' = TOOL_SELECT
            /\ UNCHANGED <<env, uid_counter, selected_obj, dragging,
                           drag_start_field, drag_obj_origin, placing, place_anchor>>
     ELSE UNCHANGED envVars
  /\ UNCHANGED notEnvVars

\* EnvironmentEditor._on_mouse_release
env_on_mouse_release(shown, button) ==
  /\ ev' = Ev("_on_mouse_release", button, NoPt, shown)
  /\ dragging' = IF shown /\ button = 0 THEN FALSE ELSE dragging
  /\ UNCHANGED <<env, uid_counter, tool, selected_obj, drag_start_field,
                 drag_obj_origin, placing, place_anchor, notEnvVars>>

\* the toolbar buttons: _set_tool(tool)
set_tool(t) ==
  /\ ev' = EvOp("_set_tool")
  /\ tool' = t
  /\ placing' = FALSE
  /\ place_anchor' = <<>>
  /\ UNCHANGED <<env, uid_counter, selected_obj, dragging, drag_start_field,
                 drag_obj_origin, notEnvVars>>

\* faulty variant: Delete removes the oldest entity of the category
delete_first ==
  /\ ev' = EvOp("_delete_selected")
  /\ IF selected_obj = NoSel \/ env = NoEnv
       THEN UNCHANGED <<env, selected_obj>>
       ELSE /\ env' = IF selected_obj.idx # 0
                        THEN <<WithCategory(env[1], selected_obj.type,
                                 Remove(Category(env[1], selected_obj.type), 1))>>
                        ELSE env
            /\ selected_obj' = NoSel
  /\ UNCHANGED <<uid_counter, tool, dragging, drag_start_field, drag_obj_origin,
                 placing, place_anchor, notEnvVars>>

\* _delete_selected (the Delete and Backspace keys of _on_key, and the
\* Delete button of the properties window)
delete_selected ==
  /\ ev' = EvOp("_delete_selected")
  /\ IF selected_obj = NoSel \/ env = NoEnv
       THEN UNCHANGED <<env, selected_obj>>
       ELSE /\ env' = IF selected_obj.idx # 0
                        THEN <<WithCategory(env[1], selected_obj.type,
                                 Remove(Category(env[1], selected_obj.type),
                                        selected_obj.idx))>>
                        ELSE env
            /\ selected_obj' = NoSel
  /\ UNCHANGED <<uid_counter, tool, dragging, drag_start_field, drag_obj_origin,
                 placing, place_anchor, notEnvVars>>

\* the Rotation input of the properties window built by
\* _refresh_properties: setattr(obj, 'rotation', a)
props_set_rotation(a) ==
  /\ ev' = Ev("props_set_rotation", a, NoPt, TRUE)
  /\ selected_obj.type \in {"start", "obs"}
  /\ IF selected_obj.idx # 0
       THEN /\ env' = <<WithCategory(env[1], selected_obj.type,
                         [Category(env[1], selected_obj.type)
                            EXCEPT ![selected_obj.idx].rotation = a])>>
            /\ UNCHANGED selected_obj
       ELSE /\ selected_obj' = [selected_obj EXCEPT !.obj[1].rotation = a]
            /\ UNCHANGED env
  /\ UNCHANGED <<uid_counter, tool, dragging, drag_start_field, drag_obj_origin,
                 placing, place_anchor, notEnvVars>>

-----------------------------------------------------------------------------
(* undo / redo *)

undo ==
  /\ ev' = EvOp("undo")
  /\ IF undo_stack = <<>>
       THEN /\ status_msg' = MsgNothingToUndo
            /\ UNCHANGED <<storeVars, histVars, ctx_func, env>>
       ELSE /\ redo_stack' = Append(redo_stack, Snapshot)
            /\ Restore(undo_stack[Len(undo_stack)])
            /\ undo_stack' = SubSeq(undo_stack, 1, Len(undo_stack) - 1)
            /\ status_msg' = "Undo"
  /\ UNCHANGED <<clipboard, drawing, last_point, modeVars, snap_enabled, lmb_down>>

\* faulty variant: redo does not save the current state for undo
redo_no_snapshot ==
  /\ ev' = EvOp("redo")
  /\ IF redo_stack = <<>>
       THEN /\ status_msg' = MsgNothingToRedo
            /\ UNCHANGED <<storeVars, histVars, ctx_func, env>>
       ELSE /\ UNCHANGED undo_stack
            /\ Restore(redo_stack[Len(redo_stack)])
            /\ redo_stack' = SubSeq(redo_stack, 1, Len(redo_stack) - 1)
            /\ status_msg' = "Redo"
  /\ UNCHANGED <<clipboard, drawing, last_point, modeVars, snap_enabled, lmb_down>>

redo ==
  /\ ev' = EvOp("redo")
  /\ IF redo_stack = <<>>
       THEN /\ status_msg' = MsgNothingToRedo
            /\ UNCHANGED <<storeVars, histVars, ctx_func, env>>
       ELSE /\ undo_stack' = Append(undo_stack, Snapshot)
            /\ Restore(redo_stack[Len(redo_stack)])
            /\ redo_stack' = SubSeq(redo_stack, 1, Len(redo_stack) - 1)
            /\ status_msg' = "Redo"
  /\ UNCHANGED <<clipboard, drawing, last_point, modeVars, snap_enabled, lmb_down>>

-----------------------------------------------------------------------------
(* Clipboard *)

ClipNone == [type |-> "none", func |-> <<>>, path |-> <<>>]

ClipFunction(d) == [type |-> "function", func |-> <<d>>, path |-> <<>>]

ClipPath(p) == [type |-> "path", func |-> <<>>, path |-> p]

\* faulty variant: a non-empty path is copied before the marker is looked at
copy_path_first ==
  /\ ev' = EvOp("copy_selection")
  /\ IF path_points # <<>>
       THEN /\ clipboard' = ClipPath(path_points)
            /\ status_msg' = "Copied path"
       ELSE IF CtxInFunctions
         THEN /\ clipboard' = ClipFunction(ToDict(CtxObject))
              /\ status_msg' = "Copied function"
         ELSE /\ status_msg' = "Nothing to copy"
              /\ UNCHANGED clipboard
  /\ UNCHANGED <<storeVars, histVars, ctx_func, drawing, last_point, modeVars,
                 snap_enabled, lmb_down>>

copy_selection ==
  /\ ev' = EvOp("copy_selection")
  /\ IF CtxInFunctions
       THEN /\ clipboard' = ClipFunction(ToDict(CtxObject))
            /\ status_msg' = "Copied function"
       ELSE IF path_points # <<>>
         THEN /\ clipboard' = ClipPath(path_points)
              /\ status_msg' = "Copied path"
         ELSE /\ status_msg' = "Nothing to copy"
              /\ UNCHANGED clipboard
  /\ UNCHANGED <<storeVars, histVars, ctx_func, drawing, last_point, modeVars,
                 snap_enabled, lmb_down>>

\* faulty variant: the marker is cut without a snapshot of the state before
cut_no_snapshot ==
  /\ ev' = EvOp("cut_selection")
  /\ IF CtxInFunctions
       THEN /\ clipboard' = ClipFunction(ToDict(CtxObject))
            /\ functions' = RemoveAt(functions, ctx_func.idx)
            /\ ctx_func' = CtxDetachedObj(CtxObject)
            /\ status_msg' = "Cut function"
            /\ UNCHANGED <<path_points, start_pos, function_templates, undo_stack,
                           redo_stack>>
       ELSE IF path_points # <<>>
         THEN /\ push_undo
              /\ clipboard' = ClipPath(path_points)
              /\ path_points' = <<>>
              /\ status_msg' = "Cut path"
              /\ UNCHANGED <<functions, start_pos, function_templates, ctx_func>>
         ELSE /\ status_msg' = "Nothing to cut"
              /\ UNCHANGED <<storeVars, undo_stack, redo_stack, clipboard, ctx_func>>
  /\ UNCHANGED <<suppress_snapshot, drawing, last_point, modeVars, snap_enabled,
                 lmb_down>>

cut_selection ==
  /\ ev' = EvOp("cut_selection")
  /\ IF CtxInFunctions
       THEN /\ push_undo
            /\ clipboard' = ClipFunction(ToDict(CtxObject))
            /\ functions' = RemoveAt(functions, ctx_func.idx)
            /\ ctx_func' = CtxDetachedObj(CtxObject)
            /\ status_msg' = "Cut function"
            /\ UNCHANGED <<path_points, start_pos, function_templates>>
       ELSE IF path_points # <<>>
         THEN /\ push_undo
              /\ clipboard' = ClipPath(path_points)
              /\ path_points' = <<>>
              /\ status_msg' = "Cut path"
              /\ UNCHANGED <<functions, start_pos, function_templates, ctx_func>>
         ELSE /\ status_msg' = "Nothing to cut"
              /\ UNCHANGED <<storeVars, undo_stack, redo_stack, clipboard, ctx_func>>
  /\ UNCHANGED <<suppress_snapshot, drawing, last_point, modeVars, snap_enabled,
                 lmb_down>>

\* faulty variant: the snapshot is pushed before the clipboard is looked at
paste_push_first ==
  /\ ev' = EvOp("paste_clipboard")
  /\ push_undo
  /\ status_msg' = MsgClipboardEmpty
  /\ UNCHANGED <<storeVars, suppress_snapshot, clipboard, ctx_func, drawing,
                 last_point, modeVars, snap_enabled, lmb_down>>

\* faulty variant: the pasted marker lies exactly on the copied position
paste_no_offset ==
  /\ ev' = EvOp("paste_clipboard")
  /\ IF clipboard.type = "none"
       THEN /\ status_msg' = MsgClipboardEmpty
            /\ UNCHANGED <<storeVars, undo_stack, redo_stack>>
       ELSE /\ push_undo
            /\ IF clipboard.type = "function"
                 THEN /\ functions' = Append(functions, FromDict(clipboard.func[1]))
                      /\ status_msg' = "Pasted function"
                      /\ UNCHANGED path_points
                 ELSE /\ path_points' = clipboard.path
                      /\ status_msg' = "Pasted path"
                      /\ UNCHANGED functions
            /\ UNCHANGED <<start_pos, function_templates>>
  /\ UNCHANGED <<suppress_snapshot, clipboard, ctx_func, drawing, last_point,
                 modeVars, snap_enabled, lmb_down>>

\* faulty variant: the copied points are added to the end of the path
paste_append_path ==
  /\ ev' = EvOp("paste_clipboard")
  /\ IF clipboard.type = "none"
       THEN /\ status_msg' = MsgClipboardEmpty
            /\ UNCHANGED <<storeVars, undo_stack, redo_stack>>
       ELSE /\ push_undo
            /\ IF clipboard.type = "function"
                 THEN LET f == FromDict(clipboard.func[1])
                      IN  /\ functions' = Append(functions,
                                 [f EXCEPT !.x = @ + PASTE_OFFSET,
                                           !.y = @ + PASTE_OFFSET])
                          /\ status_msg' = "Pasted function"
                          /\ UNCHANGED path_points
                 ELSE /\ path_points' = path_points \o clipboard.path
                      /\ status_msg' = "Pasted path"
                      /\ UNCHANGED functions
            /\ UNCHANGED <<start_pos, function_templates>>
  /\ UNCHANGED <<suppress_snapshot, clipboard, ctx_func, drawing, last_point,
                 modeVars, snap_enabled, lmb_down>>

paste_clipboard ==
  /\ ev' = EvOp("paste_clipboard")
  /\ IF clipboard.type = "none"
       THEN /\ status_msg' = MsgClipboardEmpty
            /\ UNCHANGED <<storeVars, undo_stack, redo_stack>>
       ELSE /\ push_undo
            /\ IF clipboard.type = "function"
                 THEN LET f == FromDict(clipboard.func[1])
                      IN  /\ functions' = Append(functions,
                                 [f EXCEPT !.x = @ + PASTE_OFFSET,
                                           !.y = @ + PASTE_OFFSET])
                          /\ status_msg' = "Pasted function"
                          /\ UNCHANGED path_points
                 ELSE /\ path_points' = clipboard.path
                      /\ status_msg' = "Pasted path"
                      /\ UNCHANGED functions
            /\ UNCHANGED <<start_pos, function_templates>>
  /\ UNCHANGED <<suppress_snapshot, clipboard, ctx_func, drawing, last_point,
                 modeVars, snap_enabled, lmb_down>>

-----------------------------------------------------------------------------
(* Geometry: grid snap, marker hit test, angle quantization *)

\* faulty variant: the quotient is truncated downwards instead of rounded
SnapAxisFloor(v) ==
  ((v - grid_offset) \div snap_inches) * snap_inches + grid_offset

\* faulty variant: values are sent to cell centres instead of grid lines
SnapAxisCentre(v) ==
  PyRound(v - grid_offset, snap_inches) * snap_inches + grid_offset
    + (snap_inches \div 2)

SnapAxis(v) ==
  PyRound(v - grid_offset, snap_inches) * snap_inches + grid_offset

snap_coord(pt) ==
  IF ~snap_enabled THEN pt ELSE <<SnapAxis(pt[1]), SnapAxis(pt[2])>>

InFunctionBox(f, pt) ==
  /\ 2 * Abs(pt[1] - f.x) < FUNC_SIZE
  /\ 2 * Abs(pt[2] - f.y) < FUNC_SIZE

\* get_function_at_pos: index of the first marker whose box holds pt, 0 for None
get_function_at_pos(pt) ==
  LET hits == {i \in 1..Len(functions) : InFunctionBox(functions[i], pt)}
  IN  IF hits = {} THEN 0 ELSE CHOOSE i \in hits : \A j \in hits : i <= j

is_click_on_start(pt) ==
  /\ start_pos # <<>>
  /\ (pt[1] - start_pos[1]) * (pt[1] - start_pos[1])
       + (pt[2] - start_pos[2]) * (pt[2] - start_pos[2])
     < START_HIT_RADIUS * START_HIT_RADIUS

\* atan2 of a first-quadrant vector (ax, ay >= 0, not both 0), in 0..8
Atan2Q1(ay, ax) ==
  IF ay = 0 THEN 0
  ELSE IF ax = 0 THEN 8
  ELSE IF ay = ax THEN 4
  ELSE IF ay < ax
    THEN (IF (ay + ax) * (ay + ax) < 2 * ax * ax THEN 1
          ELSE IF (ay + ax) * (ay + ax) = 2 * ax * ax THEN 2 ELSE 3)
    ELSE (IF (ay - ax) * (ay - ax) < 2 * ax * ax THEN 5
          ELSE IF (ay - ax) * (ay - ax) = 2 * ax * ax THEN 6 ELSE 7)

\* math.atan2(dy, dx): a value in -16 < a <= 16 (minus pi, pi]
Atan2(dy, dx) ==
  LET q == Atan2Q1(Abs(dy), Abs(dx))
  IN  IF dy >= 0
        THEN (IF dx >= 0 THEN q ELSE 16 - q)
        ELSE (IF dx >= 0 THEN -q ELSE q - 16)

\* key=lambda a: abs(a - angle)
AngleKey(a, angle) == Abs(a - angle)

\* min(SNAP_ANGLES, key=...): the first element with the least key
BestAngle(angle) ==
  LET i == CHOOSE k \in 1..Len(SNAP_ANGLES) :
             /\ \A j \in 1..Len(SNAP_ANGLES) :
                  AngleKey(SNAP_ANGLES[k], angle) <= AngleKey(SNAP_ANGLES[j], angle)
             /\ \A j \in 1..(k - 1) :
                  AngleKey(SNAP_ANGLES[j], angle) > AngleKey(SNAP_ANGLES[k], angle)
  IN  SNAP_ANGLES[i]

\* faulty variant: a diagonal step moves a full step along both axes
CosStepFullDiagonal(a) ==
  CASE a = 0 -> STEP_SIZE
    [] a = 4 -> STEP_SIZE
    [] a = 8 -> 0
    [] a = 12 -> -STEP_SIZE
    [] a = 16 -> -STEP_SIZE
    [] a = 20 -> -STEP_SIZE
    [] a = 24 -> 0
    [] a = 28 -> STEP_SIZE

\* math.cos(a) * step for a canonical direction a
CosStep(a) ==
  CASE a = 0 -> STEP_SIZE
    [] a = 4 -> DIAG_STEP
    [] a = 8 -> 0
    [] a = 12 -> -DIAG_STEP
    [] a = 16 -> -STEP_SIZE
    [] a = 20 -> -DIAG_STEP
    [] a = 24 -> 0
    [] a = 28 -> DIAG_STEP

\* math.sin(a) * step
SinStep(a) == CosStep((a + 24) % 32)

\* faulty variant: both axes must exceed the threshold
MoveExceedsBoth(dx, dy) == Abs(dx) > MOVE_THRESHOLD /\ Abs(dy) > MOVE_THRESHOLD

\* abs(dx) > 0.05 or abs(dy) > 0.05
MoveExceeds(dx, dy) == Abs(dx) > MOVE_THRESHOLD \/ Abs(dy) > MOVE_THRESHOLD

-----------------------------------------------------------------------------
(* Mouse handlers.  pt is screen_to_field of the local mouse position;     *)
(* hovered is dpg.is_item_hovered("drawlist_window").                      *)

\* faulty variant: the start position is not synthesized on an empty path
BeginTraceNoStart(pt) ==
  LET s == snap_coord(pt)
      clicked_func == get_function_at_pos(s)
      c == IF clicked_func # 0
             THEN <<functions[clicked_func].x, functions[clicked_func].y>>
             ELSE s
  IN  /\ push_undo
      /\ drawing' = TRUE
      /\ path_points' = Append(path_points, c)
      /\ last_point' = c
      /\ UNCHANGED <<functions, start_pos, function_templates, suppress_snapshot,
                     ctx_func, modeVars, status_msg>>

\* faulty variant: the press takes no snapshot
BeginTraceNoSnapshot(pt) ==
  LET s == snap_coord(pt)
      clicked_func == get_function_at_pos(s)
      c == IF clicked_func # 0
             THEN <<functions[clicked_func].x, functions[clicked_func].y>>
             ELSE s
  IN  /\ drawing' = TRUE
      /\ path_points' =
           IF Len(path_points) = 0
             THEN <<(<<start_pos[1], start_pos[2]>>), c>>
             ELSE Append(path_points, c)
      /\ last_point' = c
      /\ UNCHANGED <<functions, start_pos, function_templates, histVars,
                     ctx_func, modeVars, status_msg>>

\* on_mouse_down, button 0, not placing, start present: begin tracing
BeginTrace(pt) ==
  LET s == snap_coord(pt)
      clicked_func == get_function_at_pos(s)
      c == IF clicked_func # 0
             THEN <<functions[clicked_func].x, functions[clicked_func].y>>
             ELSE s
  IN  /\ push_undo
      /\ drawing' = TRUE
      /\ path_points' =
           IF Len(path_points) = 0
             THEN <<(<<start_pos[1], start_pos[2]>>), c>>
             ELSE Append(path_points, c)
      /\ last_point' = c
      /\ UNCHANGED <<functions, start_pos, function_templates, suppress_snapshot,
                     ctx_func, modeVars, status_msg>>

PlaceStart(pt) ==
  LET s == snap_coord(pt)
  IN  /\ push_undo
      /\ start_pos' = <<s[1], s[2], 0>>
      /\ placing_start' = FALSE
      /\ status_msg' = "Start placed"
      /\ UNCHANGED <<path_points, functions, function_templates, suppress_snapshot,
                     ctx_func, drawing, last_point, placing_function,
                     selected_function, selected_function_type, selected_action>>

\* faulty variant: a marker is placed at the raw cursor, snap or not
PlaceFunctionRaw(pt) ==
  /\ push_undo
  /\ functions' = Append(functions,
        NewFunction(selected_function, pt[1], pt[2], 0,
                    selected_function_type, selected_action))
  /\ status_msg' = "Placed function"
  /\ UNCHANGED <<path_points, start_pos, function_templates, suppress_snapshot,
                 ctx_func, drawing, last_point, modeVars>>

PlaceFunction(pt) ==
  LET s == snap_coord(pt)
  IN  /\ push_undo
      /\ IF selected_action = "rotate_only"
           THEN /\ functions' = Append(functions,
                      NewFunction("rotate", s[1], s[2], 0, "wait_till", "rotate_only"))
                /\ status_msg' = "Rotation point placed"
           ELSE IF selected_function # NoName
             THEN /\ functions' = Append(functions,
                        NewFunction(selected_function, s[1], s[2], 0,
                                    selected_function_type, selected_action))
                  /\ status_msg' = "Placed function"
             ELSE UNCHANGED <<functions, status_msg>>
      /\ UNCHANGED <<path_points, start_pos, function_templates, suppress_snapshot,
                     ctx_func, drawing, last_point, modeVars>>

MouseDownPrimary(pt) ==
  IF placing_start THEN PlaceStart(pt)
  ELSE IF placing_function THEN PlaceFunction(pt)
  ELSE IF start_pos = <<>>
    THEN /\ status_msg' = MsgPlaceStartFirst
         /\ UNCHANGED <<storeVars, histVars, ctx_func, drawing, last_point, modeVars>>
    ELSE BeginTrace(pt)

\* faulty variant: a cancel by right-click leaves PlacingStart set
MouseDownSecondaryKeepStart(pt) ==
  IF placing_function \/ placing_start
    THEN /\ placing_function' = FALSE
         /\ selected_function' = NoName
         /\ status_msg' = "Placement cancelled"
         /\ UNCHANGED <<storeVars, histVars, ctx_func, drawing, last_point,
                        placing_start, selected_function_type, selected_action>>
    ELSE /\ ctx_func' =
              IF ~is_click_on_start(pt) /\ get_function_at_pos(pt) # 0
                THEN CtxLinked(get_function_at_pos(pt))
                ELSE ctx_func
         /\ UNCHANGED <<storeVars, histVars, drawing, last_point, modeVars,
                        status_msg>>

MouseDownSecondary(pt) ==
  IF placing_function \/ placing_start
    THEN /\ placing_function' = FALSE
         /\ placing_start' = FALSE
         /\ selected_function' = NoName
         /\ status_msg' = "Placement cancelled"
         /\ UNCHANGED <<storeVars, histVars, ctx_func, drawing, last_point,
                        selected_function_type, selected_action>>
    ELSE /\ ctx_func' =
              IF ~is_click_on_start(pt) /\ get_function_at_pos(pt) # 0
                THEN CtxLinked(get_function_at_pos(pt))
                ELSE ctx_func
         /\ UNCHANGED <<storeVars, histVars, drawing, last_point, modeVars,
                        status_msg>>

on_mouse_down(button, hovered, pt) ==
  /\ button = 0 => ~lmb_down
  /\ ev' = Ev("on_mouse_down", button, pt, hovered)
  /\ lmb_down' = IF button = 0 THEN TRUE ELSE lmb_down
  /\ IF ~hovered
       THEN UNCHANGED <<storeVars, histVars, ctx_func, drawing, last_point,
                        modeVars, status_msg>>
       ELSE IF button = 0 THEN MouseDownPrimary(pt)
       ELSE MouseDownSecondary(pt)
  /\ UNCHANGED <<clipboard, snap_enabled>>

on_mouse_release(button) ==
  /\ button = 0 => lmb_down
  /\ ev' = Ev("on_mouse_release", button, NoPt, TRUE)
  /\ IF button = 0
       THEN /\ drawing' = FALSE
            /\ last_point' = <<>>
            /\ lmb_down' = FALSE
       ELSE UNCHANGED <<drawing, last_point, lmb_down>>
  /\ UNCHANGED <<storeVars, histVars, clipboard, ctx_func, modeVars, snap_enabled,
                 status_msg>>

\* the cursor as on_mouse_move uses it: a marker's centre, else grid-snapped
MoveCursor(pt) ==
  LET nearby == get_function_at_pos(pt)
  IN  IF nearby # 0 THEN <<functions[nearby].x, functions[nearby].y>>
      ELSE snap_coord(pt)

\* the point a tracing move commits from last_point when atan2 gave angle
MoveStepAt(angle) ==
  LET best == BestAngle(angle)
      n == <<last_point[1] + CosStep(best), last_point[2] + SinStep(best)>>
      check == get_function_at_pos(n)
  IN  IF check # 0 THEN <<functions[check].x, functions[check].y>>
      ELSE snap_coord(n)

\* the point a tracing move commits from last_point towards cursor c
MoveStep(c) == MoveStepAt(Atan2(c[2] - last_point[2], c[1] - last_point[1]))

on_mouse_move(hovered, pt) ==
  /\ ev' = Ev("on_mouse_move", -1, pt, hovered)
  /\ IF drawing /\ last_point # <<>> /\ hovered
       THEN LET c == MoveCursor(pt)
            IN  IF MoveExceeds(c[1] - last_point[1], c[2] - last_point[2])
                  THEN /\ last_point' = MoveStep(c)
                       /\ path_points' = Append(path_points, MoveStep(c))
                  ELSE UNCHANGED <<last_point, path_points>>
       ELSE UNCHANGED <<last_point, path_points>>
  /\ UNCHANGED <<functions, start_pos, function_templates, histVars, clipboard,
                 ctx_func, drawing, modeVars, snap_enabled, status_msg, lmb_down>>

\* on_mouse_move over the field during a trace, the cursor further than the
\* threshold from last_point and away from every marker, given by the value
\* math.atan2 returns for the displacement (in 1/32 of a turn)
on_mouse_move_angle(angle) ==
  /\ drawing /\ last_point # <<>>
  /\ ev' = Ev("on_mouse_move", -1, <<angle>>, TRUE)
  /\ last_point' = MoveStepAt(angle)
  /\ path_points' = Append(path_points, MoveStepAt(angle))
  /\ UNCHANGED <<functions, start_pos, function_templates, histVars, clipboard,
                 ctx_func, drawing, modeVars, snap_enabled, status_msg, lmb_down>>

-----------------------------------------------------------------------------
(* Keyboard and function menu *)

on_key_press(key) ==
  CASE key = "P" ->
         /\ ev' = EvOp("key_P")
         /\ placing_start' = TRUE
         /\ placing_function' = FALSE
         /\ status_msg' = "Click on the field to place START position"
         /\ UNCHANGED <<storeVars, histVars, clipboard, ctx_func, drawing,
                        last_point, selected_function, selected_function_type,
                        selected_action, snap_enabled, lmb_down>>
    [] key = "C" ->
         /\ ev' = EvOp("key_C")
         /\ push_undo
         /\ path_points' = <<>>
         /\ last_point' = <<>>
         /\ status_msg' = "Path cleared"
         /\ UNCHANGED <<functions, start_pos, function_templates,
                        suppress_snapshot, clipboard, ctx_func, drawing, modeVars,
                        snap_enabled, lmb_down>>
    [] key = "G" ->
         /\ ev' = EvOp("key_G")
         /\ snap_enabled' = ~snap_enabled
         /\ status_msg' = IF snap_enabled THEN "Snap: OFF" ELSE "Snap: ON"
         /\ UNCHANGED <<storeVars, histVars, clipboard, ctx_func, drawing,
                        last_point, modeVars, lmb_down>>
    [] key = "Z" -> undo
    [] key = "Y" -> redo
    [] key = "Escape" ->
         /\ ev' = EvOp("key_Escape")
         /\ IF placing_function \/ placing_start
              THEN /\ placing_function' = FALSE
                   /\ placing_start' = FALSE
                   /\ selected_function' = NoName
                   /\ status_msg' = "Placement cancelled"
              ELSE UNCHANGED <<placing_function, placing_start,
                               selected_function, status_msg>>
         /\ UNCHANGED <<storeVars, histVars, clipboard, ctx_func, drawing,
                        last_point, selected_function_type, selected_action,
                        snap_enabled, lmb_down>>

\* Tools menu, "Place Start Position"
menu_place_start ==
  /\ ev' = EvOp("menu_place_start")
  /\ placing_start' = TRUE
  /\ placing_function' = FALSE
  /\ status_msg' = "Click to place START"
  /\ UNCHANGED <<storeVars, histVars, clipboard, ctx_func, drawing, last_point,
                 selected_function, selected_function_type, selected_action,
                 snap_enabled, lmb_down>>

func_menu_set_action(action) ==
  /\ ev' = EvOp("func_menu_set_action")
  /\ selected_action' = action
  /\ IF action = "rotate_only"
       THEN /\ selected_function' = NoName
            /\ placing_function' = TRUE
            /\ status_msg' = "Click to place rotation point"
       ELSE UNCHANGED <<selected_function, placing_function, status_msg>>
  /\ UNCHANGED <<storeVars, histVars, clipboard, ctx_func, drawing, last_point,
                 placing_start, selected_function_type, snap_enabled, lmb_down>>

func_menu_set_type(ftype) ==
  /\ ev' = EvOp("func_menu_set_type")
  /\ selected_function_type' = ftype
  /\ UNCHANGED <<storeVars, histVars, clipboard, ctx_func, drawing, last_point,
                 placing_start, placing_function, selected_function,
                 selected_action, snap_enabled, status_msg, lmb_down>>

func_menu_select(name) ==
  /\ ev' = EvOp("func_menu_select")
  /\ selected_function' = name
  /\ placing_function' = TRUE
  /\ status_msg' = "Click to place function"
  /\ UNCHANGED <<storeVars, histVars, clipboard, ctx_func, drawing, last_point,
                 placing_start, selected_function_type, selected_action,
                 snap_enabled, lmb_down>>

-----------------------------------------------------------------------------
(* Context menu callbacks *)

ctx_start_delete ==
  /\ ev' = EvOp("ctx_start_delete")
  /\ push_undo
  /\ start_pos' = <<>>
  /\ status_msg' = "Start removed"
  /\ UNCHANGED <<path_points, functions, function_templates, suppress_snapshot,
                 clipboard, ctx_func, drawing, last_point, modeVars, snap_enabled,
                 lmb_down>>

ctx_start_rotate(delta) ==
  /\ ev' = EvOp("ctx_start_rotate")
  /\ IF start_pos # <<>>
       THEN /\ push_undo
            /\ start_pos' = <<start_pos[1], start_pos[2], (start_pos[3] + delta) % 360>>
            /\ status_msg' = "Start rotation"
       ELSE UNCHANGED <<start_pos, undo_stack, redo_stack, status_msg>>
  /\ UNCHANGED <<path_points, functions, function_templates, suppress_snapshot,
                 clipboard, ctx_func, drawing, last_point, modeVars, snap_enabled,
                 lmb_down>>

\* the marker object _ctx_func refers to: in the marker list while it is
\* linked, the detached object otherwise
CtxTarget ==
  IF ctx_func.state = "linked" THEN functions[ctx_func.idx] ELSE ctx_func.obj[1]

\* an attribute of that object assigned in place, o being the object after it
CtxAssign(o) ==
  IF ctx_func.state = "linked"
    THEN /\ functions' = [functions EXCEPT ![ctx_func.idx] = o]
         /\ UNCHANGED ctx_func
    ELSE /\ ctx_func' = CtxDetachedObj(o)
         /\ UNCHANGED functions

ToggledType(t) == IF t = "wait_till" THEN "run_while_moving" ELSE "wait_till"

\* faulty variant: the snapshot is taken after the rotation is assigned
ctx_func_rotate_then_push(delta) ==
  LET rot == [CtxTarget EXCEPT !.rotation = (CtxTarget.rotation + delta) % 360]
  IN  /\ ev' = EvOp("ctx_func_rotate")
      /\ IF ctx_func.state # "unset"
           THEN /\ CtxAssign(rot)
                /\ undo_stack' =
                     PushStack(undo_stack,
                               [Snapshot EXCEPT !.functions = SeqMap(ToDict, functions')])
                /\ redo_stack' = PushRedo(redo_stack)
                /\ status_msg' = "Function rotation"
           ELSE UNCHANGED <<functions, ctx_func, undo_stack, redo_stack, status_msg>>
      /\ UNCHANGED <<path_points, start_pos, function_templates, suppress_snapshot,
                     clipboard, drawing, last_point, modeVars, snap_enabled, lmb_down>>

ctx_func_rotate(delta) ==
  LET rot == [CtxTarget EXCEPT !.rotation = (CtxTarget.rotation + delta) % 360]
  IN  /\ ev' = EvOp("ctx_func_rotate")
      /\ IF ctx_func.state # "unset"
           THEN /\ push_undo
                /\ CtxAssign(rot)
                /\ status_msg' = "Function rotation"
           ELSE UNCHANGED <<functions, ctx_func, undo_stack, redo_stack, status_msg>>
      /\ UNCHANGED <<path_points, start_pos, function_templates, suppress_snapshot,
                     clipboard, drawing, last_point, modeVars, snap_enabled, lmb_down>>

ctx_func_toggle_type ==
  LET tog == [CtxTarget EXCEPT !.function_type = ToggledType(CtxTarget.function_type)]
  IN  /\ ev' = EvOp("ctx_func_toggle_type")
      /\ IF ctx_func.state # "unset"
           THEN /\ push_undo
                /\ CtxAssign(tog)
                /\ status_msg' = "Function type"
           ELSE UNCHANGED <<functions, ctx_func, undo_stack, redo_stack, status_msg>>
      /\ UNCHANGED <<path_points, start_pos, function_templates, suppress_snapshot,
                     clipboard, drawing, last_point, modeVars, snap_enabled, lmb_down>>

-----------------------------------------------------------------------------
(* Start-up: __init__ followed by build(), which calls load_all() on the   *)
(* default documents.  A document is <<>> when its file does not exist.    *)

DefaultTemplates == <<"intake", "outtake", "score", "park">>

NoDoc == <<>>

\* load_all: the store read from path.json and functions.json
LoadAllStore(pdoc, fdoc, old) ==
  [path_points |->
     IF pdoc = NoDoc THEN old.path_points
     ELSE [i \in 1..Len(pdoc[1].path) |-> <<pdoc[1].path[i].x, pdoc[1].path[i].y>>],
   functions |->
     IF fdoc = NoDoc THEN old.functions ELSE SeqMap(FromDict, fdoc[1].functions),
   function_templates |->
     IF fdoc = NoDoc \/ fdoc[1].templates = <<>> THEN old.function_templates
     ELSE fdoc[1].templates[1],
   start_pos |->
     IF fdoc = NoDoc \/ fdoc[1].start_pos = <<>> THEN old.start_pos
     ELSE <<fdoc[1].start_pos[1].x, fdoc[1].start_pos[1].y,
            fdoc[1].start_pos[1].rotation>>]

ConstructedStore ==
  [path_points |-> <<>>, functions |-> <<>>, start_pos |-> <<>>,
   function_templates |-> DefaultTemplates]

NoRun == [s0 |-> <<>>, pre |-> 0, n |-> 0, k |-> 0]

DefaultPrefs == [snap_inches |-> SNAP_INCHES, grid_offset |-> GRID_OFFSET]

\* __init__ with the preferences _load_prefs applies, then build()
InitFull(pdoc, fdoc, prefs) ==
  LET st == LoadAllStore(pdoc, fdoc, ConstructedStore)
  IN  /\ path_points = st.path_points
      /\ functions = st.functions
      /\ start_pos = st.start_pos
      /\ function_templates = st.function_templates
      /\ undo_stack = <<>>
      /\ redo_stack = <<>>
      /\ suppress_snapshot = FALSE
      /\ clipboard = ClipNone
      /\ ctx_func = CtxUnset
      /\ drawing = FALSE
      /\ last_point = <<>>
      /\ placing_start = FALSE
      /\ placing_function = FALSE
      /\ selected_function = NoName
      /\ selected_function_type = "wait_till"
      /\ selected_action = "function"
      /\ snap_enabled = FALSE
      /\ status_msg = MsgLoaded
      /\ lmb_down = FALSE
      /\ ev = EvOp("init")
      /\ g_trace = <<>>
      /\ g_pre = <<>>
      /\ g_run = NoRun
      /\ g_work = 0
      /\ snap_inches = prefs.snap_inches
      /\ grid_offset = prefs.grid_offset
      /\ scale = DEFAULT_SCALE * UNIT
      /\ offset_x = 0
      /\ offset_y = 0
      /\ env_scale = ENV_SCALE * UNIT
      /\ env_offset_x = ENV_OFFSET_X * UNIT
      /\ env_offset_y = ENV_OFFSET_Y * UNIT
      /\ env = NoEnv
      /\ uid_counter = 0
      /\ tool = TOOL_SELECT
      /\ selected_obj = NoSel
      /\ dragging = FALSE
      /\ drag_start_field = <<0, 0>>
      /\ drag_obj_origin = <<0, 0>>
      /\ placing = FALSE
      /\ place_anchor = <<>>

InitWith(pdoc, fdoc) == InitFull(pdoc, fdoc, DefaultPrefs)

-----------------------------------------------------------------------------
(* File > Open, key L and the template window.  A file is absent, holds    *)
(* text that is not JSON, or holds an object: a record whose DOMAIN is the *)
(* set of keys present.  An entry of a list is a record in the same way.   *)

FileAbsent == [state |-> "absent"]

FileInvalid == [state |-> "invalid"]

FileOk(data) == [state |-> "ok", data |-> data]

\* Function.from_dict: name, x and y are required, the others have defaults
FromDictGet(d) ==
  [name |-> d.name, x |-> d.x, y |-> d.y,
   rotation |-> IF "rotation" \in DOMAIN d THEN d.rotation ELSE 0,
   function_type |-> IF "type" \in DOMAIN d THEN d.type ELSE "wait_till",
   action |-> IF "action" \in DOMAIN d THEN d.action ELSE "function"]

\* some subscript of the comprehension raises KeyError
PathRaises(lst) == \E i \in 1..Len(lst) : ~({"x", "y"} \subseteq DOMAIN lst[i])

FunctionsRaise(lst) == \E i \in 1..Len(lst) : ~({"name", "x", "y"} \subseteq DOMAIN lst[i])

StartRaises(sp) == ~({"x", "y", "rotation"} \subseteq DOMAIN sp)

\* the statements of load_from under "if 'functions' in data", on store st
ReadFunctions(st, d) ==
  IF FunctionsRaise(d.functions) THEN [store |-> st, raised |-> TRUE]
  ELSE LET s1 == [st EXCEPT !.functions = SeqMap(FromDictGet, d.functions),
                            !.function_templates =
                               IF "templates" \in DOMAIN d THEN d.templates ELSE @]
       IN  IF "start_pos" \notin DOMAIN d THEN [store |-> s1, raised |-> FALSE]
           ELSE IF StartRaises(d.start_pos) THEN [store |-> s1, raised |-> TRUE]
           ELSE [store |-> [s1 EXCEPT !.start_pos =
                              <<d.start_pos.x, d.start_pos.y, d.start_pos.rotation>>],
                 raised |-> FALSE]

\* one of the two reads of load_from on store st: the store it leaves and
\* whether it raised
ReadFile(st, f) ==
  IF f.state = "absent" THEN [store |-> st, raised |-> FALSE]
  ELSE IF f.state = "invalid" THEN [store |-> st, raised |-> TRUE]
  ELSE LET d == f.data
       IN  IF "path" \in DOMAIN d /\ PathRaises(d.path)
             THEN [store |-> st, raised |-> TRUE]
           ELSE LET s1 == IF "path" \in DOMAIN d
                            THEN [st EXCEPT !.path_points =
                                    [i \in 1..Len(d.path) |-> <<d.path[i].x, d.path[i].y>>]]
                            ELSE st
                IN  IF "functions" \in DOMAIN d THEN ReadFunctions(s1, d)
                    ELSE [store |-> s1, raised |-> FALSE]

\* the store after the selected file f and then its companion c are read
LoadFromResult(st, f, c) ==
  LET r1 == ReadFile(st, f)
  IN  IF r1.raised THEN r1 ELSE ReadFile(r1.store, c)

\* the read of f assigns a list of new Function objects to self.functions
AssignsFunctions(f) ==
  /\ f.state = "ok"
  /\ "path" \in DOMAIN f.data => ~PathRaises(f.data.path)
  /\ "functions" \in DOMAIN f.data
  /\ ~FunctionsRaise(f.data.functions)

\* load_from; c is FileAbsent when the name has no companion
load_from(f, c) ==
  LET r == LoadFromResult(Store, f, c)
      fresh == \/ AssignsFunctions(f)
               \/ ~ReadFile(Store, f).raised /\ AssignsFunctions(c)
  IN  /\ ev' = Ev("load_from", -1, <<f, c>>, ~r.raised)
      /\ push_undo
      /\ path_points' = r.store.path_points
      /\ functions' = r.store.functions
      /\ function_templates' = r.store.function_templates
      /\ start_pos' = r.store.start_pos
      /\ ctx_func' = IF fresh THEN CtxDetach(ctx_func, functions) ELSE ctx_func
      /\ status_msg' = IF r.raised THEN status_msg ELSE MsgLoaded
      /\ UNCHANGED <<suppress_snapshot, clipboard, drawing, last_point, modeVars,
                     snap_enabled, lmb_down>>

\* load_all (key L, File > Load) with the default documents p and f
load_all(p, f) ==
  LET st == LoadAllStore(p, f, Store)
  IN  /\ ev' = Ev("load_all", -1, <<p, f>>, TRUE)
      /\ path_points' = st.path_points
      /\ functions' = st.functions
      /\ function_templates' = st.function_templates
      /\ start_pos' = st.start_pos
      /\ ctx_func' = IF f = NoDoc THEN ctx_func ELSE CtxDetach(ctx_func, functions)
      /\ status_msg' = MsgLoaded
      /\ UNCHANGED <<histVars, clipboard, drawing, last_point, modeVars,
                     snap_enabled, lmb_down>>

\* func_menu_add_template with the text of the input field
func_menu_add_template(name) ==
  /\ ev' = EvOp("func_menu_add_template")
  /\ IF name # NoName /\ \A i \in 1..Len(function_templates) : function_templates[i] # name
       THEN /\ function_templates' = Append(function_templates, name)
            /\ status_msg' = "Added template"
       ELSE UNCHANGED <<function_templates, status_msg>>
  /\ UNCHANGED <<path_points, functions, start_pos, histVars, clipboard, ctx_func,
                 drawing, last_point, modeVars, snap_enabled, lmb_down>>

DocStartMarker ==
  <<[functions |-> <<[name |-> "intake", x |-> 6000, y |-> 13000, rotation |-> 0,
                      type |-> "wait_till", action |-> "function"]>>,
     templates |-> <<>>,
     start_pos |-> <<[x |-> 1200, y |-> 13200, rotation |-> 0]>>]>>

DocPath == <<[path |-> <<[x |-> 1200, y |-> 13200], [x |-> 4000, y |-> 13000]>>]>>

\* the default documents are absent, or functions.json holds a start and a marker
Init == \E f \in {NoDoc, DocStartMarker} : InitWith(NoDoc, f)

-----------------------------------------------------------------------------
(* Inputs and bounds of the interactive specification *)

P_CLICK == <<4000, 13000>>

P_NEAR == <<5800, 13200>>

P_MARK == <<6000, 13000>>

ClickPts == IF placing_start \/ placing_function THEN {P_MARK} ELSE {P_CLICK, P_NEAR}

MoveOffsets == {<<6, 0>>, <<-100, 100>>}

TraceOffsets ==
  {<<4, 4>>, <<6, 0>>, <<0, -6>>, <<100, 100>>, <<-100, 100>>, <<-100, -100>>,
   <<100, -100>>, <<-700, 0>>}

MovePts(offsets) ==
  IF last_point = <<>> THEN {P_CLICK}
  ELSE {<<last_point[1] + o[1], last_point[2] + o[2]>> : o \in offsets}

MoveInputs(offsets) == {<<TRUE, p>> : p \in MovePts(offsets)} \cup {<<FALSE, P_CLICK>>}

Keys == {"P", "Z", "Y", "C"}

(* History variables *)

\* a snapshot was pushed by this step
Pushed == undo_stack' # undo_stack /\ ev'.op \notin {"undo", "redo"}

\* a tracing move committed a point in this step
Stepped == ev'.op = "on_mouse_move" /\ path_points' # path_points

GhostWork ==
  g_work' = g_work + (IF Pushed THEN 1 ELSE 0) + (IF Stepped THEN 1 ELSE 0)

GhostPre ==
  g_pre' =
    IF ev'.op = "undo" /\ undo_stack # <<>>
      THEN <<[store |-> Store, undo |-> undo_stack]>>
    ELSE IF ev'.op = "redo" /\ ev.op = "undo" /\ g_pre # <<>>
      THEN g_pre
    ELSE <<>>

GhostTrace ==
  g_trace' =
    IF /\ ev'.op = "on_mouse_down" /\ ev'.btn = 0 /\ ev'.hov
       /\ ~placing_start /\ ~placing_function /\ start_pos # <<>>
      THEN <<[began_empty |-> (path_points = <<>>),
              sxy |-> <<start_pos[1], start_pos[2]>>,
              store0 |-> Store,
              undo0 |-> undo_stack,
              open |-> TRUE,
              clean |-> TRUE]>>
    ELSE IF g_trace = <<>> THEN g_trace
    ELSE IF ev'.op = "on_mouse_release"
      THEN <<[g_trace[1] EXCEPT !.open = FALSE,
                                !.clean = g_trace[1].clean /\ g_trace[1].open]>>
    ELSE IF ev'.op = "on_mouse_move" /\ g_trace[1].open
      THEN g_trace
    ELSE <<[g_trace[1] EXCEPT !.clean = FALSE]>>

Bounded == g_work <= MaxWork

Frame ==
  /\ GhostPre /\ GhostTrace /\ GhostWork /\ Bounded'
  /\ UNCHANGED <<g_run, prefVars, viewVars, envViewVars, envVars>>

Next ==
  \/ \E h \in BOOLEAN, p \in ClickPts : on_mouse_down(0, h, p) /\ Frame
  \/ on_mouse_release(0) /\ Frame
  \/ \E m \in MoveInputs(MoveOffsets) : on_mouse_move(m[1], m[2]) /\ Frame
  \/ \E k \in Keys : on_key_press(k) /\ Frame

Spec == Init /\ [][Next]_vars

\* tracing only: presses, releases, moves in every quadrant, snap toggling
NextTrace ==
  \/ \E h \in BOOLEAN, p \in ClickPts : on_mouse_down(0, h, p) /\ Frame
  \/ on_mouse_release(0) /\ Frame
  \/ \E m \in MoveInputs(TraceOffsets) : on_mouse_move(m[1], m[2]) /\ Frame
  \/ on_key_press("G") /\ Frame

InitTrace == InitWith(NoDoc, DocStartMarker)

SpecTrace == InitTrace /\ [][NextTrace]_vars

\* the values math.atan2 returns, in 1/32 of a turn: -180 < a <= 180 degrees
AtanValues == (-15)..16

\* tracing with the displacement given by its angle
NextAngle ==
  \/ \E p \in ClickPts : on_mouse_down(0, TRUE, p) /\ Frame
  \/ on_mouse_release(0) /\ Frame
  \/ \E a \in AtanValues : on_mouse_move_angle(a) /\ Frame

SpecAngle == InitTrace /\ [][NextAngle]_vars

-----------------------------------------------------------------------------
(* Tool selection, placement clicks and cancels, around a trace *)

FramePlace ==
  /\ GhostPre /\ GhostTrace /\ GhostWork /\ g_work' <= MaxPlace
  /\ UNCHANGED <<g_run, prefVars, viewVars, envViewVars, envVars>>

NextPlace ==
  \/ \E b \in {0, 1}, h \in BOOLEAN, p \in ClickPts : on_mouse_down(b, h, p) /\ FramePlace
  \/ on_mouse_release(0) /\ FramePlace
  \/ \E m \in MoveInputs({<<6, 0>>}) : on_mouse_move(m[1], m[2]) /\ FramePlace
  \/ \E k \in {"P", "Escape"} : on_key_press(k) /\ FramePlace
  \/ menu_place_start /\ FramePlace
  \/ func_menu_select("intake") /\ FramePlace
  \/ \E a \in {"rotate_only", "function"} : func_menu_set_action(a) /\ FramePlace

SpecPlace == Init /\ [][NextPlace]_vars

-----------------------------------------------------------------------------
(* Placement on the grid: preferences read at start-up, snap toggling and  *)
(* placement clicks at points on, between and halfway between grid lines   *)

PrefSets ==
  {[snap_inches |-> 2400, grid_offset |-> 0],
   [snap_inches |-> 2400, grid_offset |-> 400],
   [snap_inches |-> 1000, grid_offset |-> -300]}

SnapPts ==
  {<<1300, 1300>>, <<1100, 1100>>, <<5030, 5010>>, <<1200, 3600>>,
   <<-1200, 6000>>, <<0, 2400>>, <<200, -800>>}

InitSnap == \E prefs \in PrefSets : InitFull(NoDoc, NoDoc, prefs)

NextSnap ==
  \/ on_key_press("G") /\ FramePlace
  \/ on_key_press("P") /\ FramePlace
  \/ func_menu_select("intake") /\ FramePlace
  \/ /\ placing_start \/ placing_function
     /\ \E p \in SnapPts : on_mouse_down(0, TRUE, p) /\ FramePlace
  \/ on_mouse_release(0) /\ FramePlace

SpecSnap == InitSnap /\ [][NextSnap]_vars

-----------------------------------------------------------------------------
(* The views: wheel zoom at a few cursor positions, menu zoom and reset    *)

MousePts == {<<77 * UNIT, 131 * UNIT>>}

EnvMousePts == {<<200 * UNIT, 100 * UNIT>>}

FieldPts == {0, 26, 820, -5 * UNIT, 144 * UNIT}

\* g_work counts the zoom events here
FrameView ==
  /\ g_work < MaxZoom /\ g_work' = g_work + 1
  /\ UNCHANGED <<g_trace, g_pre, g_run>>

\* the first opening of the environment editor
FrameOpen == env = NoEnv /\ UNCHANGED <<g_trace, g_pre, g_run, g_work>>

NextView ==
  \/ \E h \in BOOLEAN, m \in MousePts, d \in {-1, 1} :
       FrameView /\ on_mouse_wheel(h, m[1], m[2], d)
  \/ \E o \in BOOLEAN, h \in BOOLEAN, m \in EnvMousePts, d \in {-1, 1} :
       FrameView /\ env_on_mouse_wheel(o, h, m[1], m[2], d)
  \/ FrameView /\ zoom_in
  \/ FrameView /\ zoom_out
  \/ FrameView /\ zoom_reset
  \/ FrameOpen /\ env_new

SpecView == InitWith(NoDoc, NoDoc) /\ [][NextView]_vars

\* every operation that sets a scale; the operations on the path view come
\* within the first MaxFit events
Viewports == {<<1280, 800>>, <<2560, 2204>>, <<100, 100>>}

FrameFit == g_work < MaxFit /\ FrameView

NextZoom ==
  \/ \E h \in BOOLEAN, m \in MousePts, d \in {-1, 1} :
       FrameFit /\ on_mouse_wheel(h, m[1], m[2], d)
  \/ \E o \in BOOLEAN, h \in BOOLEAN, m \in EnvMousePts, d \in {-1, 1} :
       FrameView /\ env_on_mouse_wheel(o, h, m[1], m[2], d)
  \/ FrameFit /\ zoom_in
  \/ FrameFit /\ zoom_out
  \/ FrameFit /\ zoom_reset
  \/ \E v \in Viewports : FrameFit /\ zoom_fit(v[1], v[2])
  \/ FrameOpen /\ env_new

SpecZoom == InitWith(NoDoc, NoDoc) /\ [][NextZoom]_vars

-----------------------------------------------------------------------------
(* The environment editor beside the path window: environments opened from *)
(* documents, entities selected, placed at whole and half inches, deleted  *)
(* and edited, with clears, context clicks, undo and redo of the path      *)
(* window in between.                                                      *)

\* functions.json holds a start and two markers whose boxes overlap
DocTwoMarkers ==
  <<[functions |-> <<[name |-> "intake", x |-> 6000, y |-> 13000, rotation |-> 0,
                      type |-> "wait_till", action |-> "function"],
                     [name |-> "score", x |-> 6400, y |-> 13000, rotation |-> 0,
                      type |-> "wait_till", action |-> "function"]>>,
     templates |-> <<>>,
     start_pos |-> <<[x |-> 1200, y |-> 13200, rotation |-> 0]>>]>>

P_BOTH == <<6200, 13000>>

\* an environment document whose entities overlap around (24, 24) and (36, 24)
EnvDocOverlap ==
  [start_positions |->
     <<[id |-> <<"start", 1>>, label |-> <<"Start", 1>>, alliance |-> "red",
        x |-> 24 * EU, y |-> 24 * EU, rotation |-> 0]>>,
   obstructions |->
     <<[id |-> <<"obs", 2>>, label |-> <<"Obstacle", 1>>, shape |-> "rectangle",
        x |-> 12 * EU, y |-> 12 * EU, width |-> 24 * EU, height |-> 24 * EU,
        radius |-> 12 * EU, x2 |-> 24 * EU, y2 |-> 0, rotation |-> 0],
       [id |-> <<"obs", 3>>, label |-> <<"Obstacle", 2>>, shape |-> "circle",
        x |-> 24 * EU, y |-> 24 * EU, width |-> 24 * EU, height |-> 24 * EU,
        radius |-> 12 * EU, x2 |-> 24 * EU, y2 |-> 0, rotation |-> 0],
       [id |-> <<"obs", 4>>, label |-> <<"Wall", 3>>, shape |-> "line",
        x |-> 20 * EU, y |-> 20 * EU, width |-> 24 * EU, height |-> 24 * EU,
        radius |-> 12 * EU, x2 |-> 30 * EU, y2 |-> 28 * EU, rotation |-> 0]>>,
   zones |->
     <<[id |-> <<"zone", 5>>, label |-> <<"Zone", 1>>, x |-> 0, y |-> 0,
        width |-> 48 * EU, height |-> 48 * EU, alliance |-> "neutral"],
       [id |-> <<"zone", 6>>, label |-> <<"Zone", 2>>, x |-> 12 * EU, y |-> 12 * EU,
        width |-> 48 * EU, height |-> 48 * EU, alliance |-> "neutral"]>>,
   waypoints |->
     <<[id |-> <<"wp", 7>>, label |-> <<"Waypoint", 1>>, x |-> 24 * EU, y |-> 24 * EU,
        radius |-> 4 * EU],
       [id |-> <<"wp", 8>>, label |-> <<"Waypoint", 2>>, x |-> 36 * EU, y |-> 24 * EU,
        radius |-> 4 * EU],
       [id |-> <<"wp", 9>>, label |-> <<"Waypoint", 3>>, x |-> 37 * EU, y |-> 24 * EU,
        radius |-> 4 * EU]>>,
   valid_functions |-> <<"intake", "climb">>]

\* a document saved by an earlier session: that session had created the
\* default environment (four constructor calls), drawn one obstruction (the
\* fifth call, identifier obs_5) and deleted the start position blue_far
EnvDocSaved ==
  [start_positions |->
     <<[id |-> <<"red_close", 0>>, label |-> <<"Red Close", 0>>, alliance |-> "red",
        x |-> 12 * EU, y |-> 132 * EU, rotation |-> 0],
       [id |-> <<"red_far", 0>>, label |-> <<"Red Far", 0>>, alliance |-> "red",
        x |-> 36 * EU, y |-> 132 * EU, rotation |-> 0],
       [id |-> <<"blue_close", 0>>, label |-> <<"Blue Close", 0>>,
        alliance |-> "blue", x |-> 132 * EU, y |-> 12 * EU, rotation |-> 180]>>,
   obstructions |->
     <<[id |-> <<"obs", 5>>, label |-> <<"Obstacle", 1>>, shape |-> "rectangle",
        x |-> 60 * EU, y |-> 60 * EU, width |-> 24 * EU, height |-> 24 * EU,
        radius |-> 12 * EU, x2 |-> 24 * EU, y2 |-> 0, rotation |-> 0]>>,
   zones |-> <<>>,
   waypoints |-> <<>>,
   valid_functions |-> <<"intake", "outtake", "score", "park">>]

\* a document not written by the editor: it leaves keys out and gives its
\* rectangle a radius as well
EnvDocForeign ==
  [metadata |-> [robot_width_in |-> 16],
   start_positions |-> <<>>,
   obstructions |->
     <<[id |-> <<"crate", 0>>, label |-> <<"Crate", 0>>, shape |-> "rectangle",
        x |-> 20 * EU, y |-> 20 * EU, width |-> 10 * EU, height |-> 10 * EU,
        radius |-> 30 * EU]>>,
   zones |-> <<>>,
   waypoints |-> <<[id |-> <<"mid", 0>>, x |-> 50 * EU, y |-> 50 * EU]>>,
   valid_functions |-> <<"intake">>]

EnvDocs == {EnvDocOverlap, EnvDocSaved, EnvDocForeign}

\* query points (in 1 / EU inch): in everything, in two waypoints and two
\* obstructions, in a rectangle and the zones, in one zone, in nothing, and
\* one at half inches
EnvPts ==
  {<<24 * EU, 24 * EU>>, <<35 * EU, 24 * EU>>, <<14 * EU, 34 * EU>>,
   <<50 * EU, 50 * EU>>, <<100 * EU, 100 * EU>>, <<35 * EU + 1, 24 * EU + 1>>}

EnvClickPts ==
  IF tool = TOOL_SELECT THEN EnvPts
  ELSE {<<24 * EU, 24 * EU>>, <<35 * EU + 1, 24 * EU + 1>>}

Tools ==
  {TOOL_SELECT, TOOL_START, TOOL_OBS_RECT, TOOL_OBS_CIRC, TOOL_OBS_LINE,
   TOOL_ZONE, TOOL_WAYPOINT}

Rotations == {90, 360, -15}

BoundEnv == g_work < MaxEnv

FrameEnv ==
  /\ g_work' = g_work + 1
  /\ GhostPre /\ GhostTrace /\ UNCHANGED g_run

FrameEnvMain == FrameEnv /\ UNCHANGED <<prefVars, viewVars, envViewVars, envVars>>

\* undo and redo say themselves what becomes of the environment
FrameEnvHist ==
  /\ FrameEnv
  /\ UNCHANGED <<prefVars, viewVars, envViewVars, uid_counter, tool, selected_obj,
                 dragging, drag_start_field, drag_obj_origin, placing, place_anchor>>

NextEnv ==
  \/ BoundEnv /\ env_new /\ FrameEnv
  \/ \E d \in EnvDocs : BoundEnv /\ env_open_file_cb(d) /\ FrameEnv
  \/ BoundEnv /\ env_close /\ FrameEnv
  \/ \E h \in BOOLEAN, b \in {0, 1}, p \in EnvClickPts :
       BoundEnv /\ env_on_mouse_down(TRUE, h, b, p[1], p[2]) /\ FrameEnv
  \/ \E o \in BOOLEAN : BoundEnv /\ env_on_mouse_release(o, 0) /\ FrameEnv
  \/ \E t \in Tools : BoundEnv /\ env # NoEnv /\ set_tool(t) /\ FrameEnv
  \/ BoundEnv /\ delete_selected /\ FrameEnv
  \/ \E a \in Rotations : BoundEnv /\ props_set_rotation(a) /\ FrameEnv
  \/ BoundEnv /\ on_mouse_down(1, TRUE, P_BOTH) /\ FrameEnvMain
  \/ BoundEnv /\ on_key_press("C") /\ FrameEnvMain
  \/ BoundEnv /\ undo /\ FrameEnvHist
  \/ BoundEnv /\ redo /\ FrameEnvHist

SpecEnv == InitWith(NoDoc, DocTwoMarkers) /\ [][NextEnv]_vars

-----------------------------------------------------------------------------
(* Editing: context menu on the marker, clipboard, start rotation, undo/redo *)

InitEdit == InitWith(DocPath, DocStartMarker)

NextEdit ==
  \/ on_mouse_down(1, TRUE, P_NEAR) /\ Frame
  \/ copy_selection /\ Frame
  \/ cut_selection /\ Frame
  \/ paste_clipboard /\ Frame
  \/ \E d \in {90, -45} : ctx_start_rotate(d) /\ Frame
  \/ undo /\ Frame
  \/ redo /\ Frame

SpecEdit == InitEdit /\ [][NextEdit]_vars

\* the clipboard around path edits: context clicks on the marker, tracing
\* presses that extend the path, clears, copy, cut and paste, undo and redo
NextClip ==
  \/ on_mouse_down(1, TRUE, P_NEAR) /\ Frame
  \/ on_mouse_down(0, TRUE, P_NEAR) /\ Frame
  \/ on_mouse_release(0) /\ Frame
  \/ on_key_press("C") /\ Frame
  \/ copy_selection /\ Frame
  \/ cut_selection /\ Frame
  \/ paste_clipboard /\ Frame
  \/ undo /\ Frame
  \/ redo /\ Frame

SpecClip == InitEdit /\ [][NextClip]_vars

-----------------------------------------------------------------------------
(* Files: documents opened with File > Open and reloaded with key L, good, *)
(* incomplete, damaged and missing, between edits, undo and redo           *)

FilePath ==
  FileOk([path |-> <<[x |-> 0, y |-> 0], [x |-> 2400, y |-> 0], [x |-> 2400, y |-> 2400]>>])

\* the second point has no "y"
FilePathNoY == FileOk([path |-> <<[x |-> 0, y |-> 0], [x |-> 2400]>>])

FileFunctions ==
  FileOk([functions |-> <<[name |-> "score", x |-> 2400, y |-> 2400, rotation |-> 90,
                           type |-> "run_while_moving", action |-> "function"]>>,
          templates |-> <<"score">>,
          start_pos |-> [x |-> 0, y |-> 0, rotation |-> 180]])

\* what save_to writes for a store without a start position
FileFunctionsNoStart ==
  FileOk([functions |-> <<[name |-> "score", x |-> 2400, y |-> 2400, rotation |-> 90,
                           type |-> "run_while_moving", action |-> "function"]>>,
          templates |-> <<"score">>])

\* the start position has no "rotation"
FileFunctionsBadStart ==
  FileOk([functions |-> <<[name |-> "score", x |-> 2400, y |-> 2400]>>,
          templates |-> <<"score">>,
          start_pos |-> [x |-> 0, y |-> 0]])

\* the selected file and its companion
FilePairs ==
  {<<FilePath, FileFunctions>>, <<FileFunctions, FilePath>>,
   <<FilePath, FileAbsent>>, <<FilePath, FileFunctionsNoStart>>,
   <<FileInvalid, FileFunctions>>, <<FilePath, FileInvalid>>,
   <<FilePathNoY, FileFunctions>>, <<FilePath, FileFunctionsBadStart>>,
   <<FileAbsent, FileAbsent>>}

\* path.json and functions.json at the time of key L
DefaultDocs == {<<NoDoc, NoDoc>>, <<DocPath, DocStartMarker>>, <<DocPath, NoDoc>>}

BoundLoad == g_work < MaxLoad

FrameLoad ==
  /\ g_work' = g_work + 1
  /\ GhostPre /\ GhostTrace
  /\ UNCHANGED <<g_run, prefVars, viewVars, envViewVars>>

FrameLoadMain ==
  /\ FrameLoad
  /\ UNCHANGED <<env, uid_counter, tool, selected_obj, dragging, drag_start_field,
                 drag_obj_origin, placing, place_anchor>>

NextLoad ==
  \/ \E fc \in FilePairs : BoundLoad /\ load_from(fc[1], fc[2]) /\ FrameLoadMain
  \/ \E pf \in DefaultDocs : BoundLoad /\ load_all(pf[1], pf[2]) /\ FrameLoadMain
  \/ \E n \in {"climb", "intake", NoName} :
       BoundLoad /\ func_menu_add_template(n) /\ FrameLoadMain
  \/ BoundLoad /\ on_key_press("C") /\ FrameLoadMain
  \/ BoundLoad /\ ctx_start_rotate(90) /\ FrameLoadMain
  \/ BoundLoad /\ on_mouse_down(1, TRUE, P_NEAR) /\ FrameLoadMain
  \/ BoundLoad /\ env_new /\ FrameLoad
  \/ BoundLoad /\ undo /\ FrameLoadMain
  \/ BoundLoad /\ redo /\ FrameLoadMain

SpecLoad == InitEdit /\ [][NextLoad]_vars

-----------------------------------------------------------------------------
(* Edits of every part of the store, with undo and redo *)

BoundMixed == g_work < MaxMixed

FrameMixed ==
  /\ g_work' = g_work + 1
  /\ GhostPre /\ GhostTrace
  /\ UNCHANGED <<g_run, prefVars, viewVars, envViewVars, envVars>>

NextMixed ==
  \/ BoundMixed /\ on_mouse_down(1, TRUE, P_NEAR) /\ FrameMixed
  \/ BoundMixed /\ ctx_func_rotate(90) /\ FrameMixed
  \/ BoundMixed /\ ctx_func_toggle_type /\ FrameMixed
  \/ BoundMixed /\ func_menu_add_template("climb") /\ FrameMixed
  \/ BoundMixed /\ on_key_press("P") /\ FrameMixed
  \/ \E p \in ClickPts : BoundMixed /\ on_mouse_down(0, TRUE, p) /\ FrameMixed
  \/ BoundMixed /\ on_mouse_release(0) /\ FrameMixed
  \/ \E p \in MovePts({<<100, 100>>}) : BoundMixed /\ on_mouse_move(TRUE, p) /\ FrameMixed
  \/ BoundMixed /\ undo /\ FrameMixed
  \/ BoundMixed /\ redo /\ FrameMixed

SpecMixed == InitEdit /\ [][NextMixed]_vars

-----------------------------------------------------------------------------
(* Deep history: the undo stack filled to MAX_UNDO and beyond *)

FrameHist == UNCHANGED <<g_pre, g_trace, g_run, g_work, prefVars, viewVars, envViewVars, envVars>>

NextHist ==
  \/ ctx_start_rotate(90) /\ FrameHist
  \/ undo /\ FrameHist
  \/ redo /\ FrameHist

SpecHist == InitEdit /\ [][NextHist]_vars

-----------------------------------------------------------------------------
(* Runs of N snapshot-then-mutate operations followed by N undos.  Up to   *)
(* MaxPre operations come first; the first MaxFree operations of the run   *)
(* are any of RunOps, the later ones rotate the start.                     *)

RunOp(i) ==
  CASE i = 1 -> ctx_start_rotate(90)
    [] i = 2 -> on_key_press("C")
    [] i = 3 -> ctx_start_delete

RunOps == IF g_run.n < MaxFree THEN 1..3 ELSE {1}

PreStep ==
  /\ g_run.n = 0 /\ g_run.pre < MaxPre
  /\ ctx_start_rotate(90)
  /\ g_run' = [g_run EXCEPT !.pre = @ + 1]

RunStep ==
  /\ g_run.k = 0 /\ g_run.n < MAX_UNDO
  /\ \E i \in RunOps : RunOp(i)
  /\ Len(undo_stack') = Len(undo_stack) + 1 \/ Len(undo_stack) = MAX_UNDO
  /\ g_run' = [g_run EXCEPT !.s0 = IF g_run.n = 0 THEN <<Store>> ELSE @,
                            !.n = @ + 1]

UndoStep ==
  /\ g_run.n >= 1 /\ g_run.k < g_run.n
  /\ undo
  /\ g_run' = [g_run EXCEPT !.k = @ + 1]

NextNUndo ==
  \/ PreStep /\ UNCHANGED <<g_pre, g_trace, g_work, prefVars, viewVars, envViewVars, envVars>>
  \/ RunStep /\ UNCHANGED <<g_pre, g_trace, g_work, prefVars, viewVars, envViewVars, envVars>>
  \/ UndoStep /\ UNCHANGED <<g_pre, g_trace, g_work, prefVars, viewVars, envViewVars, envVars>>

SpecNUndo == InitEdit /\ [][NextNUndo]_vars

-----------------------------------------------------------------------------
(* Properties of the undo / redo history *)

\* C1: after any sequence of pushes, undos and redos the undo stack holds at
\* most MAX_UNDO snapshots, and a push onto a full stack removes the oldest
\* snapshot, keeps the others in order and puts the new one last.
C1_UndoStackBounded ==
  [][/\ Len(undo_stack) <= MAX_UNDO
     /\ Len(undo_stack') <= MAX_UNDO
     /\ (ev'.op = "ctx_start_rotate" /\ Len(undo_stack) = MAX_UNDO)
          => /\ Len(undo_stack') = MAX_UNDO
             /\ \A i \in 1..(MAX_UNDO - 1) : undo_stack'[i] = undo_stack[i + 1]
             /\ undo_stack'[MAX_UNDO] = Snapshot]_vars

\* a push has evicted the snapshot of the initial store from a full stack
C1_Witness ==
  /\ ev.op = "ctx_start_rotate"
  /\ Len(undo_stack) = MAX_UNDO
  /\ undo_stack[1].start_pos = <<1200, 13200, 90>>
  /\ undo_stack[MAX_UNDO].start_pos = <<1200, 13200, 0>>
  /\ start_pos = <<1200, 13200, 90>>

\* C2: for every N in 1..MAX_UNDO, N snapshot-then-mutate operations followed
\* by N undos leave the store (path, markers, start position, templates)
\* exactly as it was before the first of them.
C2_NUndosRestore ==
  (g_run.n >= 1 /\ g_run.k = g_run.n) => Store = g_run.s0[1]

\* a run of MAX_UNDO operations that began by clearing the path, all undone
C2_Witness ==
  /\ g_run.n = MAX_UNDO /\ g_run.k = MAX_UNDO /\ g_run.pre >= 1
  /\ ev.op = "undo" /\ redo_stack[MAX_UNDO].path_points = <<>>
  /\ path_points # <<>> /\ functions # <<>> /\ start_pos # <<>>

\* C3: an undo immediately followed by a redo restores the store and the
\* contents of the undo stack to what they were just before the undo.
C3_UndoRedoRestores ==
  (ev.op = "redo" /\ g_pre # <<>>)
    => Store = g_pre[1].store /\ undo_stack = g_pre[1].undo

\* an undo of a paste followed by a redo
C3_Witness ==
  /\ ev.op = "redo" /\ g_pre # <<>> /\ status_msg = "Redo"
  /\ Len(functions) = 2 /\ undo_stack # <<>>

\* C4: every snapshot push leaves the redo stack empty; a redo on an empty
\* redo stack is refused with 'Nothing to redo' and changes nothing; the redo
\* stack becomes non-empty again only by an undo.
C4_PushClearsRedo ==
  [][/\ Pushed => redo_stack' = <<>>
     /\ (ev'.op = "redo" /\ redo_stack = <<>>)
          => /\ status_msg' = MsgNothingToRedo
             /\ UNCHANGED <<storeVars, undo_stack, redo_stack>>
     /\ (redo_stack = <<>> /\ redo_stack' # <<>>) => ev'.op = "undo"]_vars

\* a redo refused although snapshots have been pushed and one undone before
C4_Witness ==
  /\ ev.op = "redo" /\ status_msg = MsgNothingToRedo
  /\ redo_stack = <<>> /\ Len(undo_stack) >= 2 /\ g_work >= 3

\* C5: undo with an empty undo stack, redo with an empty redo stack and paste
\* with an empty clipboard leave the store, both history stacks and the
\* clipboard unchanged; only the status message changes.
C5_NothingAvailable ==
  [][(\/ ev'.op = "undo" /\ undo_stack = <<>>
      \/ ev'.op = "redo" /\ redo_stack = <<>>
      \/ ev'.op = "paste_clipboard" /\ clipboard = ClipNone)
       => /\ UNCHANGED <<storeVars, histVars, clipboard, ctx_func, drawing,
                         last_point, modeVars, snap_enabled>>
          /\ status_msg' \in {MsgNothingToUndo, MsgNothingToRedo, MsgClipboardEmpty}]_vars

\* a paste refused on an empty clipboard with history present
C5_Witness ==
  /\ ev.op = "paste_clipboard" /\ status_msg = MsgClipboardEmpty
  /\ clipboard = ClipNone /\ undo_stack # <<>> /\ redo_stack # <<>>

-----------------------------------------------------------------------------
(* Properties of tracing *)

Last(seq) == seq[Len(seq)]

IsPointerEvent(e) == e.op \in {"on_mouse_down", "on_mouse_release", "on_mouse_move"}

NoMarkerAt(pt) == \A i \in 1..Len(functions) : ~InFunctionBox(functions[i], pt)

\* C6: while no Start Position exists and no placement state is active, a
\* primary press, a pointer-move or a release leaves the path, the function
\* markers, the undo and redo stacks and the drawing flag unchanged.
C6_NoStartNoEffect ==
  [][(start_pos = <<>> /\ ~placing_start /\ ~placing_function /\ IsPointerEvent(ev'))
       => /\ path_points' = path_points
          /\ functions' = functions
          /\ undo_stack' = undo_stack
          /\ redo_stack' = redo_stack
          /\ drawing' = drawing]_vars

\* C7: when the release ends a trace session that began on an empty path with
\* a Start Position present, the first stored path point equals the Start
\* Position's (x, y) as it was at the press, whatever happened in between.
C7_FirstPointIsStart ==
  [][(/\ ev'.op = "on_mouse_release"
      /\ g_trace # <<>> /\ g_trace[1].open /\ g_trace[1].began_empty
      /\ path_points' # <<>>)
       => path_points'[1] = g_trace[1].sxy]_vars

\* C8: a primary press over the field in Idle with a Start Position present
\* enters Tracing and appends to the path: on an empty path exactly the Start
\* Position's (x, y) and then the clicked point, on a non-empty path exactly
\* the clicked point; with snapping disabled and no marker under the cursor
\* the clicked point is the raw cursor position.
C8_PressBeginsTrace ==
  [][(/\ ev'.op = "on_mouse_down" /\ ev'.btn = 0 /\ ev'.hov
      /\ ~drawing /\ ~placing_start /\ ~placing_function /\ start_pos # <<>>)
       => /\ drawing'
          /\ IF path_points = <<>>
               THEN /\ Len(path_points') = 2
                    /\ path_points'[1] = <<start_pos[1], start_pos[2]>>
               ELSE /\ Len(path_points') = Len(path_points) + 1
                    /\ SubSeq(path_points', 1, Len(path_points)) = path_points
          /\ (~snap_enabled /\ NoMarkerAt(ev'.pt)) => Last(path_points') = ev'.pt]_vars

\* the scenario: start (12, 132, 0), first click at raw (40, 130), snap off
C8_Witness ==
  /\ ev.op = "on_mouse_down" /\ ev.hov /\ ev.pt = <<4000, 13000>>
  /\ ~snap_enabled /\ drawing
  /\ start_pos = <<1200, 13200, 0>>
  /\ path_points = <<(<<1200, 13200>>), (<<4000, 13000>>)>>

AppendsOne == /\ Len(path_points') = Len(path_points) + 1
              /\ SubSeq(path_points', 1, Len(path_points)) = path_points

AngleKeyWrapped(a, angle) ==
  LET d == (a - angle) % 32 IN IF d <= 16 THEN d ELSE 32 - d

NearestDirections(angle) ==
  {SNAP_ANGLES[k] : k \in {i \in 1..Len(SNAP_ANGLES) :
     \A j \in 1..Len(SNAP_ANGLES) :
       AngleKeyWrapped(SNAP_ANGLES[i], angle) <= AngleKeyWrapped(SNAP_ANGLES[j], angle)}}

\* C10: for every non-zero displacement from the last committed point to the
\* cursor, in any quadrant, the point committed by a tracing move lies one
\* step in a canonical direction with the smallest absolute angular distance
\* to the displacement's angle (snap off, no marker at the cursor or the step).
C10_NearestDirection ==
  [][(/\ ev'.op = "on_mouse_move" /\ path_points' # path_points
      /\ ~snap_enabled /\ NoMarkerAt(ev'.pt) /\ NoMarkerAt(Last(path_points')))
       => LET dx == ev'.pt[1] - last_point[1]
              dy == ev'.pt[2] - last_point[2]
          IN  /\ BestAngle(Atan2(dy, dx)) \in NearestDirections(Atan2(dy, dx))
              /\ \E a \in NearestDirections(Atan2(dy, dx)) :
                   Last(path_points') =
                     <<last_point[1] + CosStep(a), last_point[2] + SinStep(a)>>]_vars

-----------------------------------------------------------------------------
(* Properties of placement and cancellation *)

IsCancel(e) == e.op = "key_Escape" \/ (e.op = "on_mouse_down" /\ e.btn = 1 /\ e.hov)

IsPrimaryClick(e) == e.op = "on_mouse_down" /\ e.btn = 0 /\ e.hov

\* C11: the two placement states are mutually exclusive: placing_start and
\* placing_function are never both true.
C11_PlacementExclusive == ~(placing_start /\ placing_function)

\* C12: in PlacingStart or PlacingFunction a primary click commits exactly one
\* new entity (the Start Position is set, or exactly one Function Marker is
\* appended) and the tracer is then in Idle: no placement flag, not drawing.
C12_ClickCommitsOne ==
  [][(IsPrimaryClick(ev') /\ (placing_start \/ placing_function))
       => /\ IF placing_start
               THEN /\ start_pos' # <<>>
                    /\ <<start_pos'[1], start_pos'[2]>> = snap_coord(ev'.pt)
                    /\ functions' = functions
               ELSE /\ Len(functions') = Len(functions) + 1
                    /\ SubSeq(functions', 1, Len(functions)) = functions
                    /\ start_pos' = start_pos
          /\ path_points' = path_points
          /\ ~placing_start' /\ ~placing_function' /\ ~drawing']_vars

C14_CancelTrace ==
  [][(/\ IsCancel(ev') /\ drawing /\ ~placing_start /\ ~placing_function
      /\ g_trace # <<>> /\ g_trace[1].open)
       => ~drawing' /\ Store' = g_trace[1].store0]_vars

-----------------------------------------------------------------------------
(* Properties of magnetism and grid snap *)

MarkersAt(pt) == {i \in 1..Len(functions) : InFunctionBox(functions[i], pt)}

\* the quantized candidate of a tracing move towards raw cursor pt
MoveCandidate(pt) ==
  LET c == MoveCursor(pt)
      best == BestAngle(Atan2(c[2] - last_point[2], c[1] - last_point[1]))
  IN  <<last_point[1] + CosStep(best), last_point[2] + SinStep(best)>>

\* C15: when the raw cursor of a tracing press, or the quantized candidate of
\* a tracing move, lies inside a marker's half-extent box, the point appended
\* to the path is exactly that marker's stored (x, y), snap enabled or not.
C15_Magnetism ==
  [][/\ (/\ IsPrimaryClick(ev') /\ ~placing_start /\ ~placing_function
         /\ start_pos # <<>> /\ MarkersAt(ev'.pt) # {})
          => \E i \in MarkersAt(ev'.pt) :
               Last(path_points') = <<functions[i].x, functions[i].y>>
     /\ (/\ ev'.op = "on_mouse_move" /\ path_points' # path_points
         /\ MarkersAt(MoveCandidate(ev'.pt)) # {})
          => \E i \in MarkersAt(MoveCandidate(ev'.pt)) :
               Last(path_points') = <<functions[i].x, functions[i].y>>]_vars

\* r is the grid line nearest to v; of two equally near, the even one
NearestGridLine(v, r) ==
  /\ (r - grid_offset) % snap_inches = 0
  /\ 2 * Abs(v - r) <= snap_inches
  /\ 2 * Abs(v - r) = snap_inches => ((r - grid_offset) \div snap_inches) % 2 = 0

\* C16: with snap enabled snap_coord maps each axis value v, independently,
\* to round((v - offset) / size) * size + offset (size 24, offset 0: (13,13)
\* gives (24,24), (11,11) gives (0,0)); with snap disabled it is the identity.
C16_SnapCoord ==
  /\ \A p \in SnapPts :
       IF snap_enabled
         THEN /\ NearestGridLine(p[1], snap_coord(p)[1])
              /\ NearestGridLine(p[2], snap_coord(p)[2])
              /\ \A q \in SnapPts : q[1] = p[1] => snap_coord(q)[1] = snap_coord(p)[1]
         ELSE snap_coord(p) = p
  /\ (snap_enabled /\ snap_inches = 2400 /\ grid_offset = 0)
       => /\ snap_coord(<<1300, 1300>>) = <<2400, 2400>>
          /\ snap_coord(<<1100, 1100>>) = <<0, 0>>

\* the start placed by a click at (13, 13) with grid 24, offset 0
C16_Witness ==
  /\ IsPrimaryClick(ev) /\ ev.pt = <<1300, 1300>>
  /\ snap_enabled /\ snap_inches = 2400 /\ grid_offset = 0
  /\ start_pos = <<2400, 2400, 0>>

\* C17: grid snap is idempotent for every point, grid size and grid offset,
\* points halfway between two grid lines included.
C17_SnapIdempotent ==
  \A p \in SnapPts : snap_coord(snap_coord(p)) = snap_coord(p)

\* a click halfway between grid lines on both axes, and its snapped start
C17_Witness ==
  /\ IsPrimaryClick(ev) /\ ev.pt = <<1200, 3600>>
  /\ snap_enabled /\ snap_inches = 2400 /\ grid_offset = 0
  /\ start_pos = <<0, 4800, 0>>
  /\ snap_coord(<<0, 4800>>) = <<0, 4800>>

\* C18: a marker or start placed by a primary click in a placement state is
\* stored at the grid-snapped cursor when snap is enabled (grid 24: raw
\* (50.3, 50.1) is stored at (48, 48)) and at the raw cursor when disabled.
C18_PlacedAtSnapped ==
  [][(IsPrimaryClick(ev') /\ (placing_start \/ placing_function))
       => LET at == IF placing_start THEN <<start_pos'[1], start_pos'[2]>>
                    ELSE <<Last(functions').x, Last(functions').y>>
          IN  /\ placing_start \/ Len(functions') = Len(functions) + 1
              /\ IF snap_enabled
                   THEN /\ NearestGridLine(ev'.pt[1], at[1])
                        /\ NearestGridLine(ev'.pt[2], at[2])
                   ELSE at = ev'.pt
              /\ (snap_enabled /\ snap_inches = 2400 /\ grid_offset = 0
                    /\ ev'.pt = <<5030, 5010>>) => at = <<4800, 4800>>]_vars

\* a marker placed at raw (50.3, 50.1) with grid 24 is stored at (48, 48)
C18_Witness ==
  /\ IsPrimaryClick(ev) /\ ev.pt = <<5030, 5010>>
  /\ snap_enabled /\ snap_inches = 2400 /\ grid_offset = 0
  /\ functions # <<>> /\ Last(functions).x = 4800 /\ Last(functions).y = 4800

-----------------------------------------------------------------------------
(* Properties of the view transforms.  eps = 1 / MANT is the relative      *)
(* rounding error of one operation; errors are compared in screen units    *)
(* (field error times scale), as products of two values in units.          *)

\* one axis of screen_to_field(field_to_screen(p)) at offset off, scale sc
RoundTrip(p, off, sc) == ScreenToField(FieldToScreen(p, off, sc), off, sc)

\* four roundings: of p * scale, of the sum, of the difference, of the quotient
RoundTripTol(p, off, sc) ==
  (4 * Abs(p) * sc + Abs(off) * UNIT) \div MANT + 2 * UNIT + sc

RoundTripNear(p, off, sc) ==
  Abs(RoundTrip(p, off, sc) - p) * sc <= RoundTripTol(p, off, sc)

\* C19 as stated: screen_to_field(field_to_screen(p)) equals p for every
\* scale in [1, 15] and offset, in the path view and in the environment
\* editor view.
C19_RoundTripExact ==
  \A p \in FieldPts :
    /\ RoundTrip(p, offset_x, scale) = p
    /\ RoundTrip(p, offset_y, scale) = p
    /\ RoundTrip(p, env_offset_x, env_scale) = p
    /\ RoundTrip(p, env_offset_y, env_scale) = p

\* C19, amended: in both views, at every scale in [1, 15] and offset, the
\* round trip returns p to within floating-point rounding: the error times
\* the scale is at most eps * (4 |p| scale + |offset|), and the scale stays
\* in [1, 15].
C19_RoundTripNear ==
  /\ MIN_SCALE * UNIT <= scale /\ scale <= MAX_SCALE * UNIT
  /\ 1 * UNIT <= env_scale /\ env_scale <= 15 * UNIT
  /\ \A p \in FieldPts :
       /\ RoundTripNear(p, offset_x, scale)
       /\ RoundTripNear(p, offset_y, scale)
       /\ RoundTripNear(p, env_offset_x, env_scale)
       /\ RoundTripNear(p, env_offset_y, env_scale)

\* after a zoom away from the initial view, a point whose round trip is
\* inexact in the path view and one in the environment editor view
C19_Witness ==
  /\ scale # DEFAULT_SCALE * UNIT /\ offset_x # 0
  /\ env_scale # ENV_SCALE * UNIT
  /\ \E p \in FieldPts : RoundTrip(p, offset_x, scale) # p
  /\ \E p \in FieldPts : RoundTrip(p, env_offset_x, env_scale) # p

\* six roundings between the field coordinate before and after the event
ZoomTol(f, off, noff, nsc) ==
  (4 * Abs(f) * nsc + 2 * (Abs(off) + Abs(noff)) * UNIT) \div MANT
    + 3 * UNIT + nsc

ZoomNear(m, off, sc, noff, nsc) ==
  Abs(ScreenToField(m, noff, nsc) - ScreenToField(m, off, sc)) * nsc
    <= ZoomTol(ScreenToField(m, off, sc), off, noff, nsc)

IsWheel(e) == e.op = "on_mouse_wheel"

IsEnvWheel(e) == e.op = "_on_mouse_wheel"

\* C20 as stated: after every mouse-wheel zoom event, whether or not the
\* scale changed, the field coordinate under the cursor is the same as
\* before, in the path view and in the environment editor view.
C20_ZoomAnchorExact ==
  [][/\ IsWheel(ev') =>
          /\ ScreenToField(ev'.pt[1], offset_x', scale')
               = ScreenToField(ev'.pt[1], offset_x, scale)
          /\ ScreenToField(ev'.pt[2], offset_y', scale')
               = ScreenToField(ev'.pt[2], offset_y, scale)
     /\ IsEnvWheel(ev') =>
          /\ ScreenToField(ev'.pt[1], env_offset_x', env_scale')
               = ScreenToField(ev'.pt[1], env_offset_x, env_scale)
          /\ ScreenToField(ev'.pt[2], env_offset_y', env_scale')
               = ScreenToField(ev'.pt[2], env_offset_y, env_scale)]_vars

\* C20, amended: after a mouse-wheel event that changed the scale, the field
\* coordinate under the cursor is the same as before to within
\* floating-point rounding (the error times the new scale is at most
\* eps * (4 |f| scale + 2 |old offset| + 2 |new offset|)); an event that did
\* not change the scale leaves the view, and so the coordinate, unchanged.
C20_ZoomAnchorNear ==
  [][/\ IsWheel(ev') =>
          /\ ZoomNear(ev'.pt[1], offset_x, scale, offset_x', scale')
          /\ ZoomNear(ev'.pt[2], offset_y, scale, offset_y', scale')
          /\ (scale' = scale => UNCHANGED viewVars)
     /\ IsEnvWheel(ev') =>
          /\ ZoomNear(ev'.pt[1], env_offset_x, env_scale,
                      env_offset_x', env_scale')
          /\ ZoomNear(ev'.pt[2], env_offset_y, env_scale,
                      env_offset_y', env_scale')
          /\ (env_scale' = env_scale => UNCHANGED envViewVars)]_vars

\* the first event is a hovered wheel step from scale 5 to 6 in the path
\* view, after which the coordinate under the cursor differs from the one
\* at the initial view (scale 5, offset 0)
C20_Witness ==
  /\ IsWheel(ev) /\ ev.hov /\ g_work = 1
  /\ scale = (DEFAULT_SCALE + 1) * UNIT
  /\ screen_to_field(ev.pt[1], ev.pt[2])
       # <<ScreenToField(ev.pt[1], 0, DEFAULT_SCALE * UNIT),
           ScreenToField(ev.pt[2], 0, DEFAULT_SCALE * UNIT)>>

-----------------------------------------------------------------------------
(* Properties of the scale *)

\* C21: after any sequence of wheel zooms, zoom-in, zoom-out, zoom-reset and
\* zoom-fit operations the path view's scale is within [MIN_SCALE, MAX_SCALE]
\* = [1, 15], and the environment editor's scale is within [1, 15].
C21_ScaleClamped ==
  /\ MIN_SCALE = 1 /\ MAX_SCALE = 15
  /\ MIN_SCALE * UNIT <= scale /\ scale <= MAX_SCALE * UNIT
  /\ 1 * UNIT <= env_scale /\ env_scale <= 15 * UNIT

\* a fit to a viewport 17 field widths wide, clamped to the largest scale
C21_Witness ==
  /\ ev.op = "zoom_fit" /\ ev.pt = <<2560, 2204>>
  /\ IntDiv(ev.pt[1], FIELD_WIDTH_IN) > MAX_SCALE
  /\ scale = MAX_SCALE * UNIT

-----------------------------------------------------------------------------
(* Properties of the hit tests *)

\* a primary click of the select tool in the hovered editor of an open
\* environment: the step that runs _hit_test on the clicked point
IsEnvSelectClick ==
  /\ ev'.op = "_on_mouse_down" /\ ev'.btn = 0 /\ ev'.hov
  /\ tool = TOOL_SELECT

HitOrder == <<"start", "wp", "obs", "zone">>

\* some entity of the category contains the point
Contains(e, type, p) ==
  \E i \in 1..Len(Category(e, type)) : Hits(e, type, Category(e, type)[i], p[1], p[2])

\* C22: the environment hit test returns an entity of the highest-priority
\* category that contains the point, in the order Start Positions, Waypoints,
\* Obstructions, Zones, and returns none when no entity contains the point.
C22_HitPriority ==
  [][IsEnvSelectClick =>
       LET e == env[1]
           p == ev'.pt
           cats == {k \in 1..4 : Contains(e, HitOrder[k], p)}
       IN  IF cats = {} THEN selected_obj' = NoSel
           ELSE /\ selected_obj'.type =
                     HitOrder[CHOOSE k \in cats : \A j \in cats : k <= j]
                /\ selected_obj'.idx \in 1..Len(Category(e, selected_obj'.type))
                /\ Hits(e, selected_obj'.type, SelObj(selected_obj', e), p[1], p[2])]_vars

\* a click on a point inside a waypoint and inside an obstruction has selected
\* the waypoint
C22_Witness ==
  /\ ev.op = "_on_mouse_down" /\ ev.btn = 0 /\ ev.hov
  /\ env # NoEnv /\ dragging
  /\ Contains(env[1], "wp", ev.pt) /\ Contains(env[1], "obs", ev.pt)
  /\ ~Contains(env[1], "start", ev.pt)
  /\ selected_obj.type = "wp"

\* a secondary press in the hovered path window that reaches the marker test
IsMarkerContextClick ==
  /\ ev'.op = "on_mouse_down" /\ ev'.btn = 1 /\ ev'.hov
  /\ ~placing_function /\ ~placing_start
  /\ ~is_click_on_start(ev'.pt)
  /\ MarkersAt(ev'.pt) # {}

\* C23: within every hit-test category, Function Markers included, when
\* several entities contain the tested point the most recently inserted one
\* (the last of the category's list) is returned.
C23_MostRecent ==
  [][/\ IsEnvSelectClick /\ selected_obj' # NoSel =>
          \A i \in 1..Len(Category(env[1], selected_obj'.type)) :
             Hits(env[1], selected_obj'.type, Category(env[1], selected_obj'.type)[i],
                  ev'.pt[1], ev'.pt[2])
               => i <= selected_obj'.idx
     /\ IsMarkerContextClick =>
          \E i \in MarkersAt(ev'.pt) :
             /\ \A j \in MarkersAt(ev'.pt) : j <= i
             /\ ctx_func' = CtxLinked(i)]_vars

-----------------------------------------------------------------------------
(* Properties of the clipboard *)

\* the marker the context menu was opened on is one of the markers in the store
CtxSelected == ctx_func.state = "linked"

\* C24: Copy stores a copy of the contextually selected Function Marker
\* whenever that marker is in the store, also when the path is non-empty; it
\* stores a copy of the whole path only when no such marker is selected; and
\* it changes neither the store nor the undo and redo stacks.
C24_CopyPriority ==
  [][ev'.op = "copy_selection" =>
       /\ CtxSelected =>
            /\ clipboard'.type = "function"
            /\ FromDict(clipboard'.func[1]) = functions[ctx_func.idx]
       /\ ~CtxSelected /\ path_points # <<>> =>
            /\ clipboard'.type = "path"
            /\ clipboard'.path = path_points
       /\ ~CtxSelected /\ path_points = <<>> => clipboard' = clipboard
       /\ Store' = Store
       /\ undo_stack' = undo_stack /\ redo_stack' = redo_stack]_vars

\* a copy made with a marker selected and a non-empty path holds the marker
C24_Witness ==
  /\ ev.op = "copy_selection"
  /\ CtxSelected /\ path_points # <<>>
  /\ clipboard.type = "function"
  /\ FromDict(clipboard.func[1]) = functions[ctx_func.idx]

\* the state a push_undo of this step puts on top of the undo stack
PushedPre ==
  /\ undo_stack' # <<>>
  /\ Last(undo_stack') = Snapshot
  /\ Len(undo_stack') = Min(Len(undo_stack) + 1, MAX_UNDO)
  /\ redo_stack' = <<>>

\* the store a snapshot restores
SnapStore(snap) ==
  [path_points |-> snap.path_points, functions |-> SeqMap(FromDict, snap.functions),
   start_pos |-> snap.start_pos, function_templates |-> snap.function_templates]

\* C25: Cut pushes a snapshot of the pre-cut state, puts the selected marker
\* (or, with none selected, the whole path) on the clipboard and removes
\* exactly that marker (or empties the path); one undo right after a cut
\* restores the pre-cut store; a cut with nothing to cut pushes no snapshot
\* and changes nothing.
C25_Cut ==
  [][/\ ev'.op = "cut_selection" /\ CtxSelected =>
          /\ PushedPre
          /\ clipboard'.type = "function"
          /\ FromDict(clipboard'.func[1]) = functions[ctx_func.idx]
          /\ functions' = RemoveAt(functions, ctx_func.idx)
          /\ SnapStore(Last(undo_stack')) = Store
          /\ UNCHANGED <<path_points, start_pos, function_templates>>
     /\ ev'.op = "cut_selection" /\ ~CtxSelected /\ path_points # <<>> =>
          /\ PushedPre
          /\ clipboard'.type = "path" /\ clipboard'.path = path_points
          /\ path_points' = <<>>
          /\ SnapStore(Last(undo_stack')) = Store
          /\ UNCHANGED <<functions, start_pos, function_templates>>
     /\ ev'.op = "cut_selection" /\ ~CtxSelected /\ path_points = <<>> =>
          UNCHANGED <<storeVars, undo_stack, redo_stack, clipboard, ctx_func>>
     /\ ev.op = "cut_selection" /\ ev'.op = "undo" /\ undo_stack # <<>>
          /\ status_msg \in {"Cut function", "Cut path"} =>
          Store' = SnapStore(Last(undo_stack))]_vars

\* an undo right after the cut of the selected marker has put it back
C25_Witness ==
  /\ ev.op = "undo" /\ g_pre # <<>>
  /\ clipboard.type = "function"
  /\ \E i \in 1..Len(functions) : functions[i] = FromDict(clipboard.func[1])
  /\ ~(\E i \in 1..Len(g_pre[1].store.functions) :
          g_pre[1].store.functions[i] = FromDict(clipboard.func[1]))
  /\ redo_stack # <<>>

\* C26: pasting a Function-copy appends exactly one marker whose name,
\* rotation, type and action equal the copied marker's and whose position is
\* the copied position plus (6, 6) in, after pushing a snapshot; the existing
\* markers, the path and the clipboard content are unchanged.
C26_PasteFunction ==
  [][ev'.op = "paste_clipboard" /\ clipboard.type = "function" =>
       LET d == clipboard.func[1]
       IN  /\ PushedPre
           /\ Len(functions') = Len(functions) + 1
           /\ SubSeq(functions', 1, Len(functions)) = functions
           /\ Last(functions').name = d.name
           /\ Last(functions').rotation = d.rotation
           /\ Last(functions').function_type = d.type
           /\ Last(functions').action = d.action
           /\ Last(functions').x = d.x + 600
           /\ Last(functions').y = d.y + 600
           /\ path_points' = path_points
           /\ clipboard' = clipboard]_vars

\* a marker pasted next to the marker it was copied from
C26_Witness ==
  /\ ev.op = "paste_clipboard" /\ clipboard.type = "function"
  /\ Len(functions) >= 2
  /\ functions[1] = FromDict(clipboard.func[1])
  /\ Last(functions).x = functions[1].x + 600
  /\ Last(functions).name = functions[1].name

\* C27: pasting a Path-copy makes the path equal, point for point and in
\* order, to the path as it was when copied, whatever edits were made to the
\* path between the copy and the paste, and pushes a snapshot first so that one
\* undo restores the pre-paste path.  The clipboard holds the path as copied
\* from the copy or cut until the next copy or cut, and the paste installs it.
C27_PastePath ==
  [][/\ ev'.op \in {"copy_selection", "cut_selection"} /\ ~CtxSelected
          /\ path_points # <<>> =>
          clipboard' = ClipPath(path_points)
     /\ ev'.op \notin {"copy_selection", "cut_selection"} => clipboard' = clipboard
     /\ ev'.op = "paste_clipboard" /\ clipboard.type = "path" =>
          /\ path_points' = clipboard.path
          /\ PushedPre
          /\ Last(undo_stack').path_points = path_points
     /\ ev.op = "paste_clipboard" /\ status_msg = "Pasted path" /\ ev'.op = "undo" =>
          path_points' = Last(undo_stack).path_points]_vars

\* a path pasted over a longer path traced after the copy
C27_Witness ==
  /\ ev.op = "paste_clipboard" /\ clipboard.type = "path"
  /\ path_points = clipboard.path
  /\ undo_stack # <<>>
  /\ Len(Last(undo_stack).path_points) > Len(path_points)
  /\ path_points # <<>>

-----------------------------------------------------------------------------
(* Properties of the environment collection *)

\* C28: undo and redo never change the environment collection.
C28_UndoRedoKeepEnv ==
  [][ev'.op \in {"undo", "redo"} => env' = env]_vars

\* an undo that changed the store while an environment with a newly placed or
\* deleted entity, or a loaded one, was open
C28_Witness ==
  /\ ev.op = "undo" /\ g_pre # <<>>
  /\ g_pre[1].store # Store
  /\ env # NoEnv /\ env[1] # EnvDefault(0)

\* a rotation in degrees is normalized
Normalized(r) == 0 <= r /\ r < 360

\* C29: in every reachable state, after any sequence of placements,
\* context-menu rotations, property-panel edits, pastes, undo/redo and
\* document loads, the rotation r of every Start Position and every Function
\* Marker satisfies 0 <= r < 360.
C29_RotationsNormalized ==
  /\ start_pos # <<>> => Normalized(start_pos[3])
  /\ \A i \in 1..Len(functions) : Normalized(functions[i].rotation)
  /\ env # NoEnv =>
       \A i \in 1..Len(env[1].start_positions) :
          Normalized(env[1].start_positions[i].rotation)

\* the identifiers of a category of the open environment, in list order
IdsOf(e, type) == [i \in 1..Len(Category(e, type)) |-> Category(e, type)[i].id]

EnvCategories == {"start", "obs", "zone", "wp"}

UniqueIds ==
  env # NoEnv =>
    \A type \in EnvCategories :
       \A i, j \in 1..Len(Category(env[1], type)) :
          i # j => Category(env[1], type)[i].id # Category(env[1], type)[j].id

\* C30: within each environment category no two entities ever share an
\* identifier, after any sequence of document loads, entity additions and
\* deletions, and an entity's identifier never changes once assigned: a step
\* that keeps the environment open appends an identifier, removes one, or
\* leaves the identifiers as they are.
C30_IdsUniqueStable ==
  [][/\ UniqueIds'
     /\ env # NoEnv /\ env' # NoEnv
          /\ ev'.op \notin {"_env_new", "_env_open_file_cb"} =>
          \A type \in EnvCategories :
             LET ids == IdsOf(env[1], type)
                 ids2 == IdsOf(env'[1], type)
             IN  \/ ids2 = ids
                 \/ Len(ids2) = Len(ids) + 1 /\ SubSeq(ids2, 1, Len(ids)) = ids
                 \/ \E i \in 1..Len(ids) : ids2 = RemoveAt(ids, i)]_vars

-----------------------------------------------------------------------------
(* Properties of loading *)

\* the load_from of this step was aborted by an exception
LoadAborted == ev'.op = "load_from" /\ ~ev'.hov

\* C31: when load_from is given a document that is unreadable or invalid
\* (invalid JSON, or an entry missing a required field, in the selected file or
\* in its companion file), the load aborts and the path, function markers,
\* start position and template list are exactly what they were before the call.
C31_AbortedLoadKeepsStore ==
  [][LoadAborted => Store' = Store]_vars

\* a file that was read and holds the key
HasKey(f, key) == f.state = "ok" /\ key \in DOMAIN f.data

\* a path document and a functions document, both read without an exception
IsDocumentPair(f, c) ==
  \/ HasKey(f, "path") /\ ~HasKey(f, "functions")
       /\ HasKey(c, "functions") /\ ~HasKey(c, "path")
  \/ HasKey(f, "functions") /\ ~HasKey(f, "path")
       /\ HasKey(c, "path") /\ ~HasKey(c, "functions")

PathDoc(f, c) == IF HasKey(f, "path") THEN f.data ELSE c.data

FunctionsDoc(f, c) == IF HasKey(f, "functions") THEN f.data ELSE c.data

\* C32: a successful load replaces the whole store: afterwards the path, the
\* function markers and the start position are exactly what the loaded
\* document pair contains, and none of them keeps its pre-load value.
C32_LoadReplacesStore ==
  [][ev'.op = "load_from" /\ ev'.hov /\ IsDocumentPair(ev'.pt[1], ev'.pt[2]) =>
       LET pd == PathDoc(ev'.pt[1], ev'.pt[2])
           fd == FunctionsDoc(ev'.pt[1], ev'.pt[2])
       IN  /\ path_points' = [i \in 1..Len(pd.path) |-> <<pd.path[i].x, pd.path[i].y>>]
           /\ functions' = SeqMap(FromDictGet, fd.functions)
           /\ start_pos' =
                IF "start_pos" \in DOMAIN fd
                  THEN <<fd.start_pos.x, fd.start_pos.y, fd.start_pos.rotation>>
                  ELSE <<>>]_vars

-----------------------------------------------------------------------------
(* Properties of the environment document *)

\* e written with to_dict and read back with from_dict
EnvRoundTrip(e) == EnvFromDict(EnvToDict(e), uid_counter)

\* the fields an obstruction's shape does not use hold the constructor's defaults
UnusedAtDefault(o) ==
  /\ o.shape \in {"rectangle", "circle", "line"}
  /\ o.shape # "rectangle" => o.width = 24 * EU /\ o.height = 24 * EU
  /\ o.shape # "circle" => o.radius = 12 * EU
  /\ o.shape # "line" => o.x2 = 24 * EU /\ o.y2 = 0

\* C33 as stated: for every Environment e, Environment.from_dict(e.to_dict())
\* has the same entities in the same order in every category, each with
\* every field equal to the original's (identifiers included), and equal
\* metadata.
C33_RoundTripAll ==
  env # NoEnv => EnvRoundTrip(env[1]) = env[1]

\* C33, amended: the same for every Environment whose obstructions hold the
\* constructor's defaults in the fields their shape does not use; an
\* obstruction's used fields, identifier, label, position and rotation, every
\* other entity and the metadata are equal in any case.
C33_RoundTripWritten ==
  env # NoEnv =>
    LET e == env[1]
        r == EnvRoundTrip(e)
    IN  /\ (\A i \in 1..Len(e.obstructions) : UnusedAtDefault(e.obstructions[i]))
            => r = e
        /\ r.start_positions = e.start_positions
        /\ r.zones = e.zones /\ r.waypoints = e.waypoints
        /\ r.valid_functions = e.valid_functions
        /\ r.robot_width_in = e.robot_width_in
        /\ r.robot_length_in = e.robot_length_in
        /\ Len(r.obstructions) = Len(e.obstructions)
        /\ \A i \in 1..Len(e.obstructions) :
             ObstructionToDict(r.obstructions[i]) = ObstructionToDict(e.obstructions[i])

\* an environment with a rotated rectangle, a drawn circle or line, and the
\* round trip gives it back
C33_Witness ==
  /\ env # NoEnv
  /\ \E i \in 1..Len(env[1].obstructions) :
        /\ env[1].obstructions[i].rotation # 0
        /\ UnusedAtDefault(env[1].obstructions[i])
  /\ \E i \in 1..Len(env[1].obstructions) : env[1].obstructions[i].shape # "rectangle"
  /\ EnvRoundTrip(env[1]) = env[1]

-----------------------------------------------------------------------------
(* Properties of a trace gesture and of the history around it *)

\* p is q with zero or more points added after it
IsPrefix(q, p) == Len(q) <= Len(p) /\ \A i \in 1..Len(q) : p[i] = q[i]

\* C34: during a trace, from the primary press to the release, the path only
\* grows by appending at its end: each path value is the previous one with
\* zero or more points added after it; no stored point is removed, changed
\* or reordered.
C34_TraceAppendOnly ==
  [][drawing => IsPrefix(path_points, path_points')]_vars

\* this step changed the path, the markers, the start position or the templates
ChangesStore == Store' # Store

\* C35: every operation that changes the path, the function markers, the
\* start position or the template list, other than undo/redo themselves and
\* pointer-moves inside an already snapshotted trace, first pushes a snapshot
\* of the pre-change state (one undo right after it restores that state);
\* this includes loading the default documents and adding a template.
C35_ChangePushesSnapshot ==
  [][(ChangesStore /\ ev'.op \notin {"undo", "redo", "on_mouse_move"})
       => /\ Len(undo_stack') > 0
          /\ undo_stack' # undo_stack
          /\ SnapStore(Last(undo_stack')) = Store]_vars

\* a tracing move whose displacement angle is h, halfway between two
\* neighbouring canonical directions
HalfwayMove(h) ==
  /\ ev'.op = "on_mouse_move" /\ ev'.pt = <<h>>
  /\ h % 4 = 2
  /\ ~snap_enabled /\ NoMarkerAt(Last(path_points'))

\* the point one step from p in canonical direction a
StepFrom(p, a) == <<p[1] + CosStep(a), p[2] + SinStep(a)>>

\* of the two canonical directions next to h, the one enumerated first
FirstNeighbour(h) == Min((h - 2) % 32, (h + 2) % 32)

\* C36: when the displacement angle lies exactly halfway between two
\* canonical directions (22.5, 67.5, ... degrees), angle quantization picks
\* the candidate that comes first in the enumeration order 0, 45, 90, ...,
\* 315 degrees, and the result is always one of those 8 directions.
C36_HalfwayFirstEnumerated ==
  [][\A h \in AtanValues : HalfwayMove(h) =>
       /\ Last(path_points') = StepFrom(last_point, FirstNeighbour(h))
       /\ \E k \in 1..Len(SNAP_ANGLES) :
            Last(path_points') = StepFrom(last_point, SNAP_ANGLES[k])]_vars

\* a successful undo or redo
DidUndo == ev'.op = "undo" /\ undo_stack # <<>>

DidRedo == ev'.op = "redo" /\ redo_stack # <<>>

\* C37: restoring never pushes a snapshot: each successful undo shrinks the
\* undo stack by one and grows the redo stack by one, each successful redo
\* the reverse, so the sum of the two lengths is unchanged by undo and redo;
\* the guard flag is cleared after every undo/redo, so the next mutating
\* operation does snapshot.
C37_RestoreNeverPushes ==
  [][/\ DidUndo => /\ Len(undo_stack') = Len(undo_stack) - 1
                   /\ Len(redo_stack') = Len(redo_stack) + 1
     /\ DidRedo => /\ Len(undo_stack') = Len(undo_stack) + 1
                   /\ Len(redo_stack') = Len(redo_stack) - 1
     /\ ev'.op \in {"undo", "redo"} =>
          /\ Len(undo_stack') + Len(redo_stack') = Len(undo_stack) + Len(redo_stack)
          /\ ~suppress_snapshot'
     /\ (ev.op \in {"undo", "redo"} /\ ev'.op \notin {"undo", "redo"} /\ ChangesStore)
          => PushedPre]_vars

\* a redo has just restored a state while both stacks held snapshots
C37_Witness ==
  /\ ev.op = "redo" /\ status_msg = "Redo"
  /\ Len(undo_stack) >= 2 /\ redo_stack # <<>>
  /\ ~suppress_snapshot

\* a displacement of one step length along a compass direction: a full step
\* along one axis, or the same amount along both, that amount being
\* step / sqrt(2) cut to the resolution of the coordinates
OneStep(dx, dy) ==
  \/ Abs(dx) = STEP_SIZE /\ dy = 0
  \/ dx = 0 /\ Abs(dy) = STEP_SIZE
  \/ /\ Abs(dx) = Abs(dy)
     /\ 2 * dx * dx <= STEP_SIZE * STEP_SIZE
     /\ STEP_SIZE * STEP_SIZE < 2 * (Abs(dx) + 1) * (Abs(dx) + 1)

\* C38: with snap disabled and no marker containing the candidate, every
\* point appended by a tracing pointer-move lies exactly one step length from
\* the previously committed point along one of the 8 compass directions:
\* consecutive points of a traced gesture differ only horizontally,
\* vertically or along a 45 degree diagonal.
C38_StepAlongCompass ==
  [][(/\ ev'.op = "on_mouse_move" /\ path_points' # path_points
      /\ ~snap_enabled /\ NoMarkerAt(Last(path_points')))
       => /\ AppendsOne
          /\ last_point = Last(path_points)
          /\ OneStep(Last(path_points')[1] - last_point[1],
                     Last(path_points')[2] - last_point[2])]_vars

\* a gesture has committed a diagonal step and then a step along an axis
C38_Witness ==
  /\ ev.op = "on_mouse_move" /\ drawing /\ ~snap_enabled
  /\ Len(path_points) >= 4
  /\ LET n == Len(path_points)
     IN  /\ path_points[n - 1] = <<path_points[n - 2][1] - DIAG_STEP,
                                   path_points[n - 2][2] + DIAG_STEP>>
         /\ path_points[n] = <<path_points[n - 1][1] + STEP_SIZE, path_points[n - 1][2]>>

\* the gesture recorded in g_trace was a press, pointer-moves and a release
\* with nothing in between, and the release was the last event
GestureDone ==
  /\ g_trace # <<>> /\ ~g_trace[1].open /\ g_trace[1].clean
  /\ ev.op = "on_mouse_release"

\* C39: one complete trace gesture (primary press, any number of
\* pointer-moves, release) adds exactly one entry to the undo stack, and a
\* single undo after the release restores the path to what it was before the
\* press, removing every point the gesture appended.
C39_GestureOneUndo ==
  [][GestureDone =>
       LET t == g_trace[1]
       IN  /\ undo_stack # <<>>
           /\ SnapStore(Last(undo_stack)) = t.store0
           /\ SubSeq(undo_stack, 1, Len(undo_stack) - 1) =
                (IF Len(t.undo0) < MAX_UNDO THEN t.undo0 ELSE Tail(t.undo0))
           /\ IsPrefix(t.store0.path_points, path_points)
           /\ ev'.op = "undo" =>
                /\ path_points' = t.store0.path_points
                /\ Store' = t.store0
                /\ undo_stack' = SubSeq(undo_stack, 1, Len(undo_stack) - 1)]_vars

\* an undo right after a gesture of a press and at least one committed move
\* has taken the path back to what it was before the press
C39_Witness ==
  /\ ev.op = "undo" /\ g_pre # <<>>
  /\ g_trace # <<>> /\ ~g_trace[1].open
  /\ Len(g_pre[1].store.path_points) >= Len(g_trace[1].store0.path_points) + 2
  /\ g_pre[1].undo = Append(g_trace[1].undo0, Last(g_pre[1].undo))
  /\ path_points = g_trace[1].store0.path_points

-----------------------------------------------------------------------------
(* Properties of the snapshots on the stacks *)

\* stack is older with its last entry taken off
Popped(older, stack) == older # <<>> /\ stack = SubSeq(older, 1, Len(older) - 1)

\* stack is older with one snapshot of the store st put on top, the oldest
\* entry dropped beyond max entries
PushedOn(older, stack, st, max) ==
  /\ stack # <<>>
  /\ SnapStore(Last(stack)) = st
  /\ SubSeq(stack, 1, Len(stack) - 1) =
       (IF Len(older) < max THEN older ELSE Tail(older))

\* C40: a snapshot on the undo or redo stack is never altered by later edits
\* (appending points, rotating or retyping a marker, adding a template,
\* moving the start): an edit leaves every entry as it is, at most putting
\* the pre-edit store on top and emptying the redo stack, and undo and redo
\* restore exactly the store the popped snapshot was taken of.
C40_SnapshotsIsolated ==
  [][/\ ev'.op \notin {"undo", "redo"} =>
          /\ \/ undo_stack' = undo_stack
             \/ PushedOn(undo_stack, undo_stack', Store, MAX_UNDO)
          /\ redo_stack' = redo_stack \/ redo_stack' = <<>>
     /\ DidUndo =>
          /\ Store' = SnapStore(Last(undo_stack))
          /\ Popped(undo_stack, undo_stack')
          /\ PushedOn(redo_stack, redo_stack', Store, Len(redo_stack) + 1)
     /\ DidRedo =>
          /\ Store' = SnapStore(Last(redo_stack))
          /\ Popped(redo_stack, redo_stack')
          /\ PushedOn(undo_stack, undo_stack', Store, Len(undo_stack) + 1)
     /\ (ev'.op \in {"undo", "redo"} /\ ~DidUndo /\ ~DidRedo) =>
          undo_stack' = undo_stack /\ redo_stack' = redo_stack]_vars

\* a snapshot taken before a marker was rotated and a template was added is
\* still on the undo stack, under a later one, with the marker unrotated and
\* without the template
C40_Witness ==
  /\ Len(undo_stack) >= 2
  /\ Len(functions) >= 1 /\ functions[1].rotation # 0
  /\ Len(function_templates) > Len(undo_stack[1].function_templates)
  /\ undo_stack[1].functions # <<>> /\ undo_stack[1].functions[1].rotation = 0
  /\ path_points # undo_stack[1].path_points

=============================================================================
